---- MODULE Spec2Model ----
(***************************************************************************)
(* Model of the TouchPortal plugin tooling scripts.                        *)
(*                                                                         *)
(* scripts/package.py is modelled as a state machine over a small file     *)
(* system (modification times of the files under the component root, the  *)
(* output archive) and the position of one package.py process in main().   *)
(* Strings are sequences of one-character strings, so that splitting, the  *)
(* regular expression, Path.name and the '.exe' suffix handling are        *)
(* computed as the code computes them.                                     *)
(***************************************************************************)
EXTENDS Naturals, Integers, Sequences, FiniteSets, TLC

VARIABLES
    clock,          \* real time: the number of writes made so far
    mtime,          \* modification time of each file under the root, 0 = absent
    skewed,         \* history: some file was stamped with a time that is not the clock's
    archive,        \* the output .tpp file: [state, entries, mtime]
    plugin_name,    \* package.metadata.touchportal.plugin_name of the component
    pc,             \* position of the running script's process in its main()
    runs,           \* number of package.py processes started so far
    exit_code,      \* exit status of the process, NoExit while it runs
    log,            \* lines printed by the current process (log_step / log_error)
    source_time,    \* main(): source_time
    package_time,   \* main(): package_time
    plugin_exe,     \* main(): plugin_exe, the path cargo reported
    exe_bytes,      \* content of the file at plugin_exe
    entry_tp,       \* content of the generated entry.tp: [json_ok, data]
    validations,    \* validate_entry_tp(): the list it iterates over
    vresults,       \* results of validate_plugin_start_cmd so far, in order
    calls,          \* history: the stages main() has invoked in this process
    archive0,       \* history: the archive when the current process started
    prev_wrote,     \* history: the previous process ended by writing the archive
    stale,          \* history: a source file was modified after the archive was last written
    dest,           \* install.py: the install directory, [exists, entries]
    scratch,        \* install.py: the tree under the temporary directory
    pkg_exit,       \* install.py: exit status of the package.py subprocess
    file_count,     \* install_plugin(): file_count
    dest0,          \* history: the install directory when install.py started
    script,         \* test runners: the runner that is running
    args,           \* main(): args, the parsed command line
    available_plugins, \* main(): available_plugins / all_plugins
    queue,          \* main(): plugins_to_test / plugins
    idx,            \* main(): number of components the loop has finished
    total_plugins,  \* main(): total_plugins
    tested_plugins, \* main(): tested_plugins / passed_plugins
    skipped_plugins, \* main(): skipped_plugins / uncaught_plugins
    failed_plugins, \* main(): failed_plugins
    tested_list,    \* main(): successfully_tested_plugins
    cwd,            \* the process's working directory
    original_dir,   \* run_plugin_test(): original_dir
    procs,          \* processes started for the current component and still running
    cur,            \* the component under test: what it does and the result so far
    verdicts,       \* history: what each processed component did and how it was classified
    summary,        \* the counts printed in the test summary
    current_package, \* get_plugin_config(): the package 'cargo metadata' lists
    crate_binary,   \* get_plugin_config() / build_plugin(): crate_binary
    tpp_file,       \* get_plugin_config(): tpp_file
    build_stdout,   \* build_plugin(): the lines of result.stdout
    line_no,        \* build_plugin(): number of lines the loop has taken
    out_dir,        \* build_plugin(): out_dir
    coverage_files  \* run_coverage_collection(): coverage_files

\* The state of install.py and of the test runners.
installVars == <<dest, scratch, pkg_exit, file_count, dest0>>
runnerVars == <<script, args, available_plugins, queue, idx, total_plugins, tested_plugins,
                skipped_plugins, failed_plugins, tested_list, cwd, original_dir,
                procs, cur, verdicts, summary>>
helperVars == <<current_package, crate_binary, tpp_file, build_stdout, line_no, out_dir,
                coverage_files>>
toolVars == <<installVars, runnerVars, helperVars>>

vars == <<clock, mtime, skewed, archive, plugin_name, pc, runs, exit_code, log,
          source_time, package_time, plugin_exe, exe_bytes, entry_tp,
          validations, vresults, calls, archive0, prev_wrote, stale, toolVars>>

----------------------------------------------------------------------------
(* Bounds of the model *)

\* Number of writes (clock ticks) a behaviour may make.
MaxTime == 4
\* Number of package.py processes a behaviour may start.
MaxRuns == 2

----------------------------------------------------------------------------
(* Strings *)

NL == "\n"
SP == " "
SLASH == "/"

\* "%TP_PLUGIN_FOLDER%"
TP_PLUGIN_FOLDER ==
    <<"%","T","P","_","P","L","U","G","I","N","_","F","O","L","D","E","R","%">>

DOT_EXE == <<".","e","x","e">>
NULL_LITERAL == <<"n","u","l","l">>
ENTRY_TP_NAME == <<"e","n","t","r","y",".","t","p">>
DOT_TPP == <<".","t","p","p">>
DOT_RS == <<".","r","s">>
CARGO_TOML == <<"C","a","r","g","o",".","t","o","m","l">>
BUILD_RS == <<"b","u","i","l","d",".","r","s">>

\* Python's None, as returned by dict.get for a missing key.
None == <<"None">>

\* Python truthiness of an Optional[str].
Falsy(v) == v = None \/ v = <<>>

\* Smallest index of character c in s, 0 when s has no c.
FirstIndex(s, c) ==
    IF \E i \in 1..Len(s) : s[i] = c
    THEN CHOOSE i \in 1..Len(s) : s[i] = c /\ \A j \in 1..(i-1) : s[j] # c
    ELSE 0

\* Largest index of character c in s, 0 when s has no c.
LastIndex(s, c) ==
    IF \E i \in 1..Len(s) : s[i] = c
    THEN CHOOSE i \in 1..Len(s) : s[i] = c /\ \A j \in (i+1)..Len(s) : s[j] # c
    ELSE 0

StartsWith(s, p) == Len(s) >= Len(p) /\ SubSeq(s, 1, Len(p)) = p

\* str.endswith
EndsWith(s, p) == Len(s) >= Len(p) /\ SubSeq(s, Len(s) - Len(p) + 1, Len(s)) = p

\* s.split(' ', 1)[0]
SplitFirstSpace(s) ==
    IF FirstIndex(s, SP) = 0 THEN s ELSE SubSeq(s, 1, FirstIndex(s, SP) - 1)

\* pathlib: Path(p).name for a POSIX file path, the text after the last '/'.
PathName(p) == SubSeq(p, LastIndex(p, SLASH) + 1, Len(p))

\* re.match(r"^%TP_PLUGIN_FOLDER%([^/]+)/(.+)$", s): [ok, dir, bin].
\* [^/]+ ends at the first '/', which must not come first; '.' matches no
\* newline; '$' matches at the end or before one final newline.
NoMatch == [ok |-> FALSE, dir |-> <<>>, bin |-> <<>>]

ReMatch(s) ==
    IF ~StartsWith(s, TP_PLUGIN_FOLDER) THEN NoMatch
    ELSE
      LET rest == SubSeq(s, Len(TP_PLUGIN_FOLDER) + 1, Len(s))
          k    == FirstIndex(rest, SLASH)
          tail == SubSeq(rest, k + 1, Len(rest))
          n    == FirstIndex(tail, NL)
          body == IF n = 0 THEN tail ELSE SubSeq(tail, 1, n - 1)
      IN  IF k < 2 THEN NoMatch
          ELSE IF body = <<>> THEN NoMatch
          ELSE IF n # 0 /\ n # Len(tail) THEN NoMatch
          ELSE [ok |-> TRUE, dir |-> SubSeq(rest, 1, k - 1), bin |-> body]

\* Fault: every trailing '.exe' is removed, not one.
StripExe_All(s) == IF EndsWith(s, DOT_EXE) /\ EndsWith(SubSeq(s, 1, Len(s) - 4), DOT_EXE)
                   THEN SubSeq(s, 1, Len(s) - 8)
                   ELSE IF EndsWith(s, DOT_EXE) THEN SubSeq(s, 1, Len(s) - 4) ELSE s

\* if name.endswith('.exe'): name = name[:-4]
StripExe(s) == IF EndsWith(s, DOT_EXE) THEN SubSeq(s, 1, Len(s) - 4) ELSE s

----------------------------------------------------------------------------
(* Output lines *)

\* log_error(message): a line on standard error.
log_error(msg, arg) == [out |-> "stderr", msg |-> msg, arg |-> arg]

\* log_step(message): a '==> ' line on standard output.
log_step(msg, arg) == [out |-> "stdout", msg |-> msg, arg |-> arg]

----------------------------------------------------------------------------
(* validate_plugin_start_cmd *)

\* The names of the four start commands, in the order validate_entry_tp
\* checks them.
PRIMARY == "plugin_start_cmd"
OS_KEYS == <<"plugin_start_cmd_windows", "plugin_start_cmd_mac", "plugin_start_cmd_linux">>

\* The value is skipped: absent, empty or the literal "null".
Skipped(cmd_value) == Falsy(cmd_value) \/ cmd_value = NULL_LITERAL

\* Result of one call: whether it returned True and the error lines it printed.
Pass == [ok |-> TRUE, err |-> <<>>]
Fail(lines) == [ok |-> FALSE, err |-> lines]

\* Fault: the directory segment is not compared.
DirMismatch_Unchecked(expected_plugin_dir, name) == FALSE

\* if expected_plugin_dir != plugin_name
DirMismatch(expected_plugin_dir, name) == expected_plugin_dir # name

\* Fault: the main command is compared like an OS-specific one.
BinaryMismatch_IgnoringSuffix(expected_binary_name, actual_binary_name) ==
    StripExe(expected_binary_name) # StripExe(actual_binary_name)

\* if expected_binary_name != actual_binary_name (the main command)
BinaryMismatch(expected_binary_name, actual_binary_name) ==
    expected_binary_name # actual_binary_name

validate_plugin_start_cmd(cmd_name, cmd_value, is_os_specific, name, exe) ==
    IF Skipped(cmd_value) THEN Pass
    ELSE
      LET cmd_path == SplitFirstSpace(cmd_value)
          match    == ReMatch(cmd_path)
          expected_plugin_dir  == match.dir
          expected_binary_name == match.bin
      IN
      IF ~match.ok THEN
          Fail(<<log_error(cmd_name \o " has invalid format", cmd_value),
                 log_error("Expected format", <<>>)>>)
      ELSE IF DirMismatch(expected_plugin_dir, name) THEN
          Fail(<<log_error("Plugin directory mismatch in " \o cmd_name, <<>>),
                 log_error("Expected", name),
                 log_error("Found", expected_plugin_dir),
                 log_error("build.rs hardcoded directory", <<>>)>>)
      ELSE IF is_os_specific THEN
          LET expected_base_name == StripExe(expected_binary_name)
              actual_base_name   == StripExe(PathName(exe))
          IN  IF expected_base_name # actual_base_name THEN
                  Fail(<<log_error("Binary base name mismatch in " \o cmd_name, <<>>),
                         log_error("Expected (ignoring OS suffix)", expected_base_name),
                         log_error("Built (ignoring OS suffix)", actual_base_name),
                         log_error("build.rs hardcoded binary name", <<>>)>>)
              ELSE Pass
      ELSE
          LET actual_binary_name == PathName(exe)
          IN  IF BinaryMismatch(expected_binary_name, actual_binary_name) THEN
                  Fail(<<log_error("Binary name mismatch in " \o cmd_name, <<>>),
                         log_error("Expected", expected_binary_name),
                         log_error("Built", actual_binary_name),
                         log_error("build.rs hardcoded binary name", <<>>)>>)
              ELSE Pass

\* dict.get(key, default) on the parsed entry.tp, a function from its keys.
Get(entry_data, key, default) ==
    IF key \in DOMAIN entry_data THEN entry_data[key] ELSE default

\* validate_entry_tp: the list 'validations'.
Validations(entry_data) ==
    <<[name |-> PRIMARY, value |-> Get(entry_data, PRIMARY, None), os |-> FALSE],
      [name |-> OS_KEYS[1], value |-> Get(entry_data, OS_KEYS[1], <<>>), os |-> TRUE],
      [name |-> OS_KEYS[2], value |-> Get(entry_data, OS_KEYS[2], <<>>), os |-> TRUE],
      [name |-> OS_KEYS[3], value |-> Get(entry_data, OS_KEYS[3], <<>>), os |-> TRUE]>>

----------------------------------------------------------------------------
(* Files under the component root *)

CARGO_TOML_PATH == CARGO_TOML
MAIN_RS_PATH == <<"s","/","m",".","r","s">>
NOTES_PATH == <<"n",".","m","d">>

Files == {CARGO_TOML_PATH, MAIN_RS_PATH, NOTES_PATH}

\* source_patterns = ["*.rs", "Cargo.toml", "build.rs"]; a pattern with a
\* leading '*' matches a file name by its ending, the others by equality.
source_patterns ==
    <<[star |-> TRUE, text |-> DOT_RS],
      [star |-> FALSE, text |-> CARGO_TOML],
      [star |-> FALSE, text |-> BUILD_RS]>>

GlobMatch(file_name, pattern) ==
    IF pattern.star THEN EndsWith(file_name, pattern.text) ELSE file_name = pattern.text

\* Path(".").glob("**/" + pattern), kept to the entries that are files.
Glob(times, pattern) ==
    {f \in Files : times[f] # 0 /\ GlobMatch(PathName(f), pattern)}

SetMax(S) == IF S = {} THEN 0 ELSE CHOOSE m \in S : \A x \in S : x <= m

\* Fault: the oldest matching file is taken instead of the newest.
get_newest_source_time_Oldest(times) ==
    LET found == UNION {Glob(times, source_patterns[i]) : i \in 1..Len(source_patterns)}
    IN  IF found = {} THEN 0
        ELSE CHOOSE m \in {times[f] : f \in found} : \A f \in found : m <= times[f]

\* get_newest_source_time
get_newest_source_time(times) ==
    SetMax({0} \cup {times[f] :
              f \in UNION {Glob(times, source_patterns[i]) : i \in 1..Len(source_patterns)}})

\* The output archive. state is "absent", "complete" or "partial"; entries is
\* the set of [path, data] members it holds; mtime is its modification time.
NoArchive == [state |-> "absent", entries |-> {}, mtime |-> 0]

\* Fault: the file is never found.
get_file_mtime_Missing(file) == 0

\* get_file_mtime
get_file_mtime(file) == IF file.state = "absent" THEN 0 ELSE file.mtime

----------------------------------------------------------------------------
(* create_tpp_package *)

\* shutil.copy2(src, directory): the file appears in the directory under the
\* source's name and replaces a file of that name.
Copy2(dir, src_path, data) ==
    {e \in dir : e.name # PathName(src_path)} \cup {[name |-> PathName(src_path), data |-> data]}

\* The generated descriptor always lies at <out_dir>/../out/entry.tp.
ENTRY_TP_PATH == <<"o","/">> \o ENTRY_TP_NAME

ExeData(bytes) == [kind |-> "exe", bytes |-> bytes, json_ok |-> TRUE, data |-> <<>>]
TpData(tp) == [kind |-> "tp", bytes |-> "", json_ok |-> tp.json_ok, data |-> tp.data]

\* The staged tree <temp_dir>/<plugin_name>/ after the two copies.
Staged(exe, bytes, tp) == Copy2(Copy2({}, exe, ExeData(bytes)), ENTRY_TP_PATH, TpData(tp))

\* Fault: the members are stored without the staging directory's name.
ArcName_Flat(name, file_name) == file_name

\* arcname = file_path.relative_to(temp_dir)
ArcName(name, file_name) == name \o <<SLASH>> \o file_name

\* Fault: the output file is opened with mode 'a' and keeps its members.
ZipEntries_Append(old, name, exe, bytes, tp) ==
    old.entries \cup {[path |-> ArcName(name, e.name), data |-> e.data] : e \in Staged(exe, bytes, tp)}

\* zipfile.ZipFile(tpp_path, 'w'): the members written, replacing the file.
ZipEntries(old, name, exe, bytes, tp) ==
    {[path |-> ArcName(name, e.name), data |-> e.data] : e \in Staged(exe, bytes, tp)}

----------------------------------------------------------------------------
(* Inputs: component names, build products, descriptors *)

N_FOO == <<"F","o","o">>
N_MY_P == <<"M","y"," ","P">>
N_BAR == <<"B","a","r">>
B_BIN == <<"b","i","n">>
B_OTH == <<"o","t","h">>
ARGS == <<" ","-","v">>

\* Display names a component may declare.
PluginNames == {N_FOO, N_MY_P}

\* Paths cargo may report for the built executable.
ExePaths == {<<"t","/">> \o B_BIN, <<"t","/">> \o B_BIN \o DOT_EXE}

Cmd(dir, bin) == TP_PLUGIN_FOLDER \o dir \o <<SLASH>> \o bin

\* A marker for a key the descriptor does not have (no value of a key).
Absent == <<"absent">>

\* Values of plugin_start_cmd in the descriptors considered.
PrimaryCmds ==
    { Absent, <<>>, NULL_LITERAL,
      Cmd(N_FOO, B_BIN), Cmd(N_MY_P, B_BIN), Cmd(N_BAR, B_BIN),
      Cmd(N_FOO, B_BIN \o DOT_EXE), Cmd(N_FOO, B_OTH),
      Cmd(N_FOO, B_BIN) \o ARGS, Cmd(N_MY_P, B_BIN \o DOT_EXE) \o ARGS,
      Cmd(N_BAR, B_BIN \o DOT_EXE) \o ARGS,
      N_FOO \o <<SLASH>> \o B_BIN,
      TP_PLUGIN_FOLDER \o N_FOO,
      Cmd(N_FOO, <<>>), Cmd(<<>>, B_BIN),
      Cmd(N_FOO, B_BIN) \o <<NL>>,
      Cmd(N_FOO, B_BIN) \o ARGS \o <<NL, "x">> }

\* Values of the OS-specific start commands in the descriptors considered.
OsCmds ==
    { Absent, <<>>, NULL_LITERAL,
      Cmd(N_FOO, B_BIN), Cmd(N_FOO, B_BIN \o DOT_EXE),
      Cmd(N_FOO, B_BIN \o DOT_EXE \o DOT_EXE),
      Cmd(N_MY_P, B_BIN \o DOT_EXE), Cmd(N_BAR, B_BIN), Cmd(N_FOO, B_OTH),
      N_FOO \o <<SLASH>> \o B_BIN }

\* The parsed descriptor with the given values; an Absent value is no key.
MkEntry(p, w, m, l) ==
    LET v == [k \in {PRIMARY, OS_KEYS[1], OS_KEYS[2], OS_KEYS[3]} |->
                 IF k = PRIMARY THEN p ELSE IF k = OS_KEYS[1] THEN w
                 ELSE IF k = OS_KEYS[2] THEN m ELSE l]
    IN  [k \in {x \in DOMAIN v : v[x] # Absent} |-> v[k]]

\* entry.tp files: json_ok is whether the file parses as JSON.
BadJson == [json_ok |-> FALSE, data |-> MkEntry(Absent, Absent, Absent, Absent)]
Entry(p, w, m, l) == [json_ok |-> TRUE, data |-> MkEntry(p, w, m, l)]

\* Descriptors the validator is checked on.
AllEntries ==
    {BadJson} \cup {Entry(p, w, m, l) : p \in PrimaryCmds, w \in OsCmds, m \in OsCmds, l \in OsCmds}

\* What build_plugin returns in the pipeline specification: the executable's
\* path, its content and the descriptor.
BuildOutputs ==
    { [exe |-> <<"t","/">> \o B_BIN, bytes |-> "elf-1", tp |-> BadJson],
      [exe |-> <<"t","/">> \o B_BIN, bytes |-> "elf-1",
       tp |-> Entry(Cmd(N_FOO, B_BIN), Absent, Absent, Absent)],
      [exe |-> <<"t","/">> \o B_BIN \o DOT_EXE, bytes |-> "elf-2",
       tp |-> Entry(Cmd(N_FOO, B_BIN \o DOT_EXE), Cmd(N_FOO, B_BIN), Absent, Absent)],
      [exe |-> <<"t","/">> \o B_BIN, bytes |-> "elf-2",
       tp |-> Entry(Cmd(N_FOO, B_BIN), Cmd(N_FOO, B_BIN \o DOT_EXE), Absent, Cmd(N_BAR, B_BIN))],
      [exe |-> <<"t","/">> \o B_BIN, bytes |-> "elf-1",
       tp |-> Entry(Cmd(N_MY_P, B_BIN), Absent, Absent, Absent)] }

----------------------------------------------------------------------------
(* State *)

NoExit == -1

\* The install directory is a record: whether it exists and the entries
\* under it.
NoDir == [exists |-> FALSE, entries |-> {}]

\* The working directory the scripts are started in.
ROOT == "."

\* No component is under test; no summary was printed.
NoComponent == [name |-> ""]
NoSummary == [printed |-> FALSE]
NoArgs == [help |-> FALSE, bogus |-> FALSE, coverage |-> FALSE, plugins |-> <<>>]

\* No test runner has run.
RunnerIdle ==
    /\ script = ""
    /\ args = NoArgs
    /\ available_plugins = {}
    /\ queue = <<>>
    /\ idx = 0
    /\ total_plugins = 0
    /\ tested_plugins = 0
    /\ skipped_plugins = 0
    /\ failed_plugins = 0
    /\ tested_list = <<>>
    /\ cwd = ROOT
    /\ original_dir = ROOT
    /\ procs = {}
    /\ cur = NoComponent
    /\ verdicts = <<>>
    /\ summary = NoSummary

\* get_plugin_config, build_plugin and validation_coverage.py have not
\* been entered.
HelperIdle ==
    /\ current_package = [id_matches |-> FALSE]
    /\ crate_binary = <<>>
    /\ tpp_file = <<>>
    /\ build_stdout = <<>>
    /\ line_no = 0
    /\ out_dir = None
    /\ coverage_files = <<>>

\* No script other than package.py has run.
ToolsIdle ==
    /\ HelperIdle
    /\ dest = NoDir
    /\ scratch = {}
    /\ pkg_exit = NoExit
    /\ file_count = 0
    /\ dest0 = NoDir
    /\ RunnerIdle

InitRun ==
    /\ exit_code = NoExit
    /\ log = <<>>
    /\ source_time = 0
    /\ package_time = 0
    /\ validations = <<>>
    /\ vresults = <<>>
    /\ calls = {}

Init ==
    /\ clock = 0
    /\ mtime = [f \in Files |-> 0]
    /\ skewed = FALSE
    /\ archive = NoArchive
    /\ plugin_name \in PluginNames
    /\ pc = "idle"
    /\ runs = 0
    /\ plugin_exe = <<>>
    /\ exe_bytes = ""
    /\ entry_tp = BadJson
    /\ archive0 = NoArchive
    /\ prev_wrote = FALSE
    /\ stale = FALSE
    /\ ToolsIdle
    /\ InitRun

fsVars == <<clock, mtime, skewed, stale>>
buildVars == <<plugin_exe, exe_bytes, entry_tp>>
gateVars == <<source_time, package_time>>
histVars == <<archive0, prev_wrote>>

\* sys.exit(code), or main() returning (code 0), after printing the lines.
Exit(code, lines) ==
    /\ pc' = "exited"
    /\ exit_code' = code
    /\ log' = log \o lines

----------------------------------------------------------------------------
(* The environment: files under the component root are written *)

\* A file matching *.rs, Cargo.toml or build.rs under the component root.
IsSourceFile(f) ==
    \/ EndsWith(PathName(f), DOT_RS)
    \/ PathName(f) = CARGO_TOML
    \/ PathName(f) = BUILD_RS

\* A file is written and stamped with the time of the write.
ModifyFile(f) ==
    /\ clock < MaxTime
    /\ clock' = clock + 1
    /\ mtime' = [mtime EXCEPT ![f] = clock + 1]
    /\ stale' = (stale \/ IsSourceFile(f))
    /\ UNCHANGED <<skewed, archive, plugin_name, pc, runs, exit_code, log>>
    /\ UNCHANGED <<gateVars, buildVars, validations, vresults, calls, histVars>>
    /\ UNCHANGED toolVars

\* A file is written and stamped with a time that is not the time of the
\* write (clock skew, a restored or copied time stamp).
ModifyFileSkewed(f, t) ==
    /\ clock < MaxTime
    /\ t # clock + 1
    /\ clock' = clock + 1
    /\ mtime' = [mtime EXCEPT ![f] = t]
    /\ skewed' = TRUE
    /\ stale' = (stale \/ IsSourceFile(f))
    /\ UNCHANGED <<archive, plugin_name, pc, runs, exit_code, log>>
    /\ UNCHANGED <<gateVars, buildVars, validations, vresults, calls, histVars>>
    /\ UNCHANGED toolVars

----------------------------------------------------------------------------
(* package.py: main() *)

\* The previous process finished successfully by writing the archive.
WroteArchive == pc = "exited" /\ exit_code = 0 /\ "create_tpp_package" \in calls

\* A package.py process is started.
Start ==
    /\ pc \in {"idle", "exited"}
    /\ runs < MaxRuns
    /\ runs' = runs + 1
    /\ pc' = "get_plugin_config"
    /\ exit_code' = NoExit
    /\ log' = <<>>
    /\ source_time' = 0
    /\ package_time' = 0
    /\ validations' = <<>>
    /\ vresults' = <<>>
    /\ calls' = {}
    /\ archive0' = archive
    /\ prev_wrote' = WroteArchive
    /\ plugin_exe' = <<>>
    /\ exe_bytes' = ""
    /\ entry_tp' = BadJson
    /\ UNCHANGED <<fsVars, archive, plugin_name>>
    /\ UNCHANGED toolVars

\* get_plugin_config(): cargo metadata and cargo pkgid succeed and name the
\* plugin, or the process exits with code 1.
GetPluginConfig(ok) ==
    /\ pc = "get_plugin_config"
    /\ IF ok /\ ~Falsy(plugin_name)
       THEN /\ pc' = "check_requirements"
            /\ UNCHANGED <<exit_code, log>>
       ELSE Exit(1, <<log_error("get_plugin_config failed", <<>>)>>)
    /\ UNCHANGED <<fsVars, archive, plugin_name, runs>>
    /\ UNCHANGED <<gateVars, buildVars, validations, vresults, calls, histVars>>
    /\ UNCHANGED toolVars

\* check_requirements(["cargo", "zip"])
CheckRequirements(ok) ==
    /\ pc = "check_requirements"
    /\ IF ok
       THEN /\ pc' = "rebuild_check"
            /\ UNCHANGED <<exit_code, log>>
       ELSE Exit(1, <<log_error("Missing required tools", <<>>)>>)
    /\ UNCHANGED <<fsVars, archive, plugin_name, runs>>
    /\ UNCHANGED <<gateVars, buildVars, validations, vresults, calls, histVars>>
    /\ UNCHANGED toolVars

\* Fault: equal times are taken to need a rebuild.
UpToDate_Strict(s, p) == s < p

\* if source_time <= package_time: 'Package up to date', return
UpToDate(s, p) == s <= p

\* main(): the rebuild check.
RebuildCheck ==
    /\ pc = "rebuild_check"
    /\ source_time' = get_newest_source_time(mtime)
    /\ package_time' = get_file_mtime(archive)
    /\ IF UpToDate(source_time', package_time')
       THEN Exit(0, <<log_step("Package up to date", plugin_name \o DOT_TPP)>>)
       ELSE /\ pc' = "build_plugin"
            /\ UNCHANGED <<exit_code, log>>
    /\ UNCHANGED <<fsVars, archive, plugin_name, runs>>
    /\ UNCHANGED <<buildVars, validations, vresults, calls, histVars>>
    /\ UNCHANGED toolVars

\* build_plugin(crate_binary): cargo build fails, or an artifact or entry.tp is
\* not found (exit 1), or it returns the executable and the descriptor.
BuildPlugin(ok, out) ==
    /\ pc = "build_plugin"
    /\ calls' = calls \cup {"build_plugin"}
    /\ IF ok
       THEN /\ plugin_exe' = out.exe
            /\ exe_bytes' = out.bytes
            /\ entry_tp' = out.tp
            /\ pc' = "validate_entry_tp"
            /\ UNCHANGED <<exit_code, log>>
       ELSE /\ Exit(1, <<log_error("Failed to build plugin", <<>>)>>)
            /\ UNCHANGED buildVars
    /\ UNCHANGED <<fsVars, archive, plugin_name, runs>>
    /\ UNCHANGED <<gateVars, validations, vresults, histVars>>
    /\ UNCHANGED toolVars

\* validate_entry_tp(): load the descriptor, require plugin_start_cmd.
ValidateEntryTp ==
    /\ pc = "validate_entry_tp"
    /\ calls' = calls \cup {"validate_entry_tp"}
    /\ IF ~entry_tp.json_ok
       THEN /\ Exit(1, <<log_error("Failed to validate entry.tp", <<>>)>>)
            /\ UNCHANGED validations
       ELSE /\ validations' = Validations(entry_tp.data)
            /\ IF Falsy(validations'[1].value)
               THEN Exit(1, <<log_error("plugin_start_cmd not found in entry.tp", <<>>)>>)
               ELSE /\ pc' = "validate_loop"
                    /\ UNCHANGED <<exit_code, log>>
    /\ UNCHANGED <<fsVars, archive, plugin_name, runs>>
    /\ UNCHANGED <<gateVars, buildVars, vresults, histVars>>
    /\ UNCHANGED toolVars

\* Fault: the loop goes on after a command failed (no sys.exit(1)).
ValidateCmd_NoExit ==
    /\ pc = "validate_loop"
    /\ Len(vresults) < Len(validations)
    /\ LET v == validations[Len(vresults) + 1]
           r == validate_plugin_start_cmd(v.name, v.value, v.os, plugin_name, plugin_exe)
       IN  /\ vresults' = Append(vresults, r.ok)
           /\ log' = log \o r.err
           /\ exit_code' = exit_code
           /\ pc' = IF Len(vresults') = Len(validations)
                    THEN "create_tpp_package" ELSE "validate_loop"
    /\ UNCHANGED <<fsVars, archive, plugin_name, runs>>
    /\ UNCHANGED <<gateVars, buildVars, validations, calls, histVars>>
    /\ UNCHANGED toolVars

\* validate_entry_tp(): one iteration of the loop over validations.
ValidateCmd ==
    /\ pc = "validate_loop"
    /\ Len(vresults) < Len(validations)
    /\ LET v == validations[Len(vresults) + 1]
           r == validate_plugin_start_cmd(v.name, v.value, v.os, plugin_name, plugin_exe)
       IN  /\ vresults' = Append(vresults, r.ok)
           /\ IF ~r.ok THEN Exit(1, r.err)
              ELSE /\ log' = log
                   /\ exit_code' = exit_code
                   /\ pc' = IF Len(vresults') = Len(validations)
                            THEN "create_tpp_package" ELSE "validate_loop"
    /\ UNCHANGED <<fsVars, archive, plugin_name, runs>>
    /\ UNCHANGED <<gateVars, buildVars, validations, calls, histVars>>
    /\ UNCHANGED toolVars

\* create_tpp_package(): the staged files are zipped to the output path.
CreateTppPackage ==
    /\ pc = "create_tpp_package"
    /\ clock < MaxTime
    /\ calls' = calls \cup {"create_tpp_package"}
    /\ clock' = clock + 1
    /\ archive' = [state |-> "complete",
                   entries |-> ZipEntries(archive, plugin_name, plugin_exe, exe_bytes, entry_tp),
                   mtime |-> clock + 1]
    /\ stale' = FALSE
    /\ Exit(0, <<log_step("Packaging complete", <<>>)>>)
    /\ UNCHANGED <<mtime, skewed, plugin_name, runs>>
    /\ UNCHANGED <<gateVars, buildVars, validations, vresults, histVars>>
    /\ UNCHANGED toolVars

\* create_tpp_package(): a copy into the staging directory raises before the
\* output file is opened; the process ends with a traceback, code 1.
CreateTppPackageCopyFails ==
    /\ pc = "create_tpp_package"
    /\ calls' = calls \cup {"create_tpp_package"}
    /\ Exit(1, <<log_error("Traceback", <<>>)>>)
    /\ UNCHANGED <<fsVars, archive, plugin_name, runs>>
    /\ UNCHANGED <<gateVars, buildVars, validations, vresults, histVars>>
    /\ UNCHANGED toolVars

\* create_tpp_package(): writing a member raises after the output file was
\* opened with mode 'w'; the file holds the members written before.
CreateTppPackageWriteFails(written) ==
    /\ pc = "create_tpp_package"
    /\ clock < MaxTime
    /\ written \subseteq ZipEntries(archive, plugin_name, plugin_exe, exe_bytes, entry_tp)
    /\ written # ZipEntries(archive, plugin_name, plugin_exe, exe_bytes, entry_tp)
    /\ calls' = calls \cup {"create_tpp_package"}
    /\ clock' = clock + 1
    /\ archive' = [state |-> "partial", entries |-> written, mtime |-> clock + 1]
    /\ stale' = FALSE
    /\ Exit(1, <<log_error("Traceback", <<>>)>>)
    /\ UNCHANGED <<mtime, skewed, plugin_name, runs>>
    /\ UNCHANGED <<gateVars, buildVars, validations, vresults, histVars>>
    /\ UNCHANGED toolVars

\* Any file may be written at any moment; the skewed writes considered are
\* those of one source file.
Environment ==
    \/ \E f \in Files : ModifyFile(f)
    \/ \E t \in 1..MaxTime : ModifyFileSkewed(MAIN_RS_PATH, t)

Validate ==
    \/ ValidateEntryTp
    \/ ValidateCmd

Package ==
    \/ CreateTppPackage
    \/ CreateTppPackageCopyFails
    \/ \E written \in SUBSET ZipEntries(archive, plugin_name, plugin_exe, exe_bytes, entry_tp) :
          CreateTppPackageWriteFails(written)

Next ==
    \/ Environment
    \/ Start
    \/ \E ok \in BOOLEAN : GetPluginConfig(ok)
    \/ \E ok \in BOOLEAN : CheckRequirements(ok)
    \/ RebuildCheck
    \/ \E ok \in BOOLEAN, out \in BuildOutputs : BuildPlugin(ok, out)
    \/ Validate
    \/ Package

\* The packaging pipeline in its environment.
Spec == Init /\ [][Next]_vars

----------------------------------------------------------------------------
(* The descriptor validator on its own inputs *)

\* build_plugin has returned: the validator is about to run on a display
\* name, an executable path and a descriptor.
InitValidate ==
    /\ clock = 0
    /\ mtime = [f \in Files |-> 0]
    /\ skewed = FALSE
    /\ archive = NoArchive
    /\ plugin_name \in PluginNames
    /\ pc = "validate_entry_tp"
    /\ runs = 1
    /\ plugin_exe \in ExePaths
    /\ exe_bytes = "elf-1"
    /\ entry_tp \in AllEntries
    /\ archive0 = NoArchive
    /\ prev_wrote = FALSE
    /\ stale = FALSE
    /\ ToolsIdle
    /\ InitRun

SpecValidate == InitValidate /\ [][Validate]_vars

----------------------------------------------------------------------------
(* Properties of the rebuild check and of the pipeline (Spec) *)

\* The lines of the process's standard error / standard output.
UpToDateLine == log_step("Package up to date", plugin_name \o DOT_TPP)
ReportedUpToDate == \E i \in 1..Len(log) : log[i] = UpToDateLine

\* The files of the component root that match *.rs, Cargo.toml or build.rs.
SourceFiles == {f \in Files : mtime[f] # 0 /\ IsSourceFile(f)}

\* The archive's modification time, 0 when there is no archive.
ArtifactTime == IF archive.state = "absent" THEN 0 ELSE archive.mtime

\* The newest source file is newer than the archive (S > A).
SourceNewer == \E f \in SourceFiles : mtime[f] > ArtifactTime

\* The step in which main() compares the two times.
GateStep == pc = "rebuild_check" /\ pc' # "rebuild_check"

\* C1: main() goes on to build_plugin iff the newest source time S exceeds
\* the archive's time A (each 0 when there is no such file); when S <= A,
\* S = A included, it returns with code 0 and 'Package up to date', having
\* invoked neither the builder, the validator nor the packager, and leaves
\* the archive as it is.
C1_RebuildIffSourceNewer ==
    [][GateStep =>
         /\ (pc' = "build_plugin") <=> SourceNewer
         /\ ~SourceNewer =>
              /\ pc' = "exited" /\ exit_code' = 0
              /\ ReportedUpToDate'
              /\ calls' = {}
              /\ archive' = archive]_vars

\* C1 witness: a process reported 'up to date' on equal, non-zero times.
C1_Witness ==
    /\ pc = "exited" /\ exit_code = 0 /\ ReportedUpToDate
    /\ source_time = package_time /\ source_time > 0
    /\ calls = {}

\* All four start commands have been validated and passed.
AllValidated == Len(vresults) = 4 /\ \A i \in 1..4 : vresults[i]
SomeValidationFailed == \E i \in 1..Len(vresults) : ~vresults[i]

\* C2: the archive is written only by create_tpp_package, after build_plugin
\* returned and all four start commands passed validation; when a validation
\* fails the process has exited with code 1 and the archive is the one the
\* process found when it started.
C2_PackageOnlyAfterValidation ==
    /\ [][archive' # archive =>
            /\ pc = "create_tpp_package"
            /\ "build_plugin" \in calls /\ "validate_entry_tp" \in calls
            /\ AllValidated]_vars
    /\ [](SomeValidationFailed =>
            pc = "exited" /\ exit_code = 1 /\ archive = archive0)

\* C2 witness: a validation failed while an archive of an earlier run existed.
C2_Witness ==
    /\ SomeValidationFailed /\ pc = "exited" /\ exit_code = 1
    /\ archive0.state = "complete" /\ archive = archive0

\* The process finished successfully by writing the archive.
PackagedOk == pc = "exited" /\ exit_code = 0 /\ "create_tpp_package" \in calls

\* The member of the archive stored under the path.
Member(path) == CHOOSE e \in archive.entries : e.path = path

\* C8: after create_tpp_package succeeds the archive holds exactly the two
\* members <name>/<binary file name> and <name>/entry.tp, whose contents are
\* those of the built binary and of the generated descriptor; nothing of an
\* earlier archive is left.
C8_ArchiveHoldsExactlyBinaryAndDescriptor ==
    PackagedOk =>
      LET bin_path == plugin_name \o <<SLASH>> \o PathName(plugin_exe)
          tp_path  == plugin_name \o <<SLASH>> \o ENTRY_TP_NAME
      IN  /\ archive.state = "complete"
          /\ {e.path : e \in archive.entries} = {bin_path, tp_path}
          /\ Cardinality(archive.entries) = 2
          /\ Member(bin_path).data.kind = "exe"
          /\ Member(bin_path).data.bytes = exe_bytes
          /\ Member(tp_path).data.kind = "tp"
          /\ Member(tp_path).data.data = entry_tp.data

\* C8 witness: the archive replaced an earlier one with other members.
C8_Witness ==
    /\ PackagedOk
    /\ archive0.state = "complete"
    /\ {e.path : e \in archive0.entries} # {e.path : e \in archive.entries}

\* The result 'Package up to date' of the step: exit 0, nothing built, the
\* archive not rewritten.
ShortCircuits ==
    /\ pc' = "exited" /\ exit_code' = 0
    /\ ReportedUpToDate'
    /\ calls' = {}
    /\ archive' = archive

\* C9 as stated: after a process that finished by writing the archive, a
\* process started with no source file modified since short-circuits.
C9_SecondRunUpToDate ==
    [][(GateStep /\ prev_wrote /\ ~stale) => ShortCircuits]_vars

\* C9 as amended: ... provided the source files' modification times reflect
\* the order of the writes (none carries a time later than the archive's).
C9_SecondRunUpToDateNoSkew ==
    [][(GateStep /\ prev_wrote /\ ~stale /\ ~skewed) => ShortCircuits]_vars

\* C9 witness: the second process reported 'up to date' after the first
\* wrote the archive.
C9_Witness ==
    /\ prev_wrote /\ ~stale /\ ~skewed
    /\ pc = "exited" /\ exit_code = 0 /\ ReportedUpToDate
    /\ archive.state = "complete"

\* C10: with modification times that reflect the order of the writes, a source
\* file modified after the archive was last written makes the next process
\* go on to build_plugin: it does not report the package up to date.
C10_ModifiedSourceRebuilds ==
    [][(GateStep /\ stale /\ ~skewed) => pc' = "build_plugin"]_vars

\* C10 witness: an archive exists, a source file was modified after it was
\* written and the process is about to build.
C10_Witness ==
    /\ pc = "build_plugin" /\ stale /\ ~skewed
    /\ archive.state = "complete"

----------------------------------------------------------------------------
(* Properties of the descriptor validator (SpecValidate) *)

\* validate_entry_tp has returned or has ended the process.
ValidationOver == pc \in {"create_tpp_package", "exited"}
Rejected == pc = "exited" /\ exit_code = 1

\* The string has the shape ^%TP_PLUGIN_FOLDER%([^/]+)/(.+)$, as a whole or up
\* to its first space.
HasShape(v) == ReMatch(v).ok \/ ReMatch(SplitFirstSpace(v)).ok

\* An OS-specific start command that is present: a key of the descriptor whose
\* value is neither empty nor "null".
PresentOs(k) ==
    /\ k \in DOMAIN entry_tp.data
    /\ entry_tp.data[k] # <<>>
    /\ entry_tp.data[k] # NULL_LITERAL

OsKeySet == {OS_KEYS[i] : i \in 1..Len(OS_KEYS)}

\* C3 as stated: a descriptor whose primary start command, or a present
\* OS-specific one, has not the required shape is rejected with exit code 1.
C3_BadShapeRejected ==
    (ValidationOver /\ entry_tp.json_ok) =>
       ((\/ PRIMARY \in DOMAIN entry_tp.data /\ ~HasShape(entry_tp.data[PRIMARY])
         \/ \E k \in OsKeySet : PresentOs(k) /\ ~HasShape(entry_tp.data[k]))
        => Rejected)

\* C4 as stated: the descriptor whose only start command is
\* %TP_PLUGIN_FOLDER%<display name>/<binary file name>, with or without
\* arguments after a space, passes validation.
C4_CanonicalCommandPasses ==
    LET base == Cmd(plugin_name, PathName(plugin_exe)) IN
    (/\ ValidationOver /\ entry_tp.json_ok
     /\ DOMAIN entry_tp.data = {PRIMARY}
     /\ \/ entry_tp.data[PRIMARY] = base
        \/ StartsWith(entry_tp.data[PRIMARY], base \o <<SP>>))
    => pc = "create_tpp_package"

\* The i-th start command validated, and the match of its path portion.
CmdValue(i) == validations[i].value
CmdMatch(i) == ReMatch(SplitFirstSpace(CmdValue(i)))
HasErrorLine(msg, arg) == \E j \in 1..Len(log) : log[j] = log_error(msg, arg)

\* C5: a validated start command of the required shape whose directory
\* segment is not the display name fails validation (the process exits with
\* code 1) and standard error names the expected display name and the
\* directory found.
C5_DirectoryMismatchRejected ==
    \A i \in 1..Len(vresults) :
       (CmdMatch(i).ok /\ CmdMatch(i).dir # plugin_name) =>
          /\ ~vresults[i]
          /\ Rejected
          /\ HasErrorLine("Expected", plugin_name)
          /\ HasErrorLine("Found", CmdMatch(i).dir)

\* C5 witness: the windows command was reached and names another directory.
C5_Witness ==
    /\ Len(vresults) = 2 /\ Rejected
    /\ CmdMatch(2).ok /\ CmdMatch(2).dir = N_BAR /\ plugin_name = N_FOO

\* C6: the primary command, of the required shape and naming the display
\* name's directory, passes iff its binary segment is the built executable's
\* file name, with no suffix removed.
C6_PrimaryBinaryExact ==
    (Len(vresults) >= 1 /\ CmdMatch(1).ok /\ CmdMatch(1).dir = plugin_name) =>
       (vresults[1] <=> CmdMatch(1).bin = PathName(plugin_exe))

\* C6 witness: the primary command failed on a binary segment that differs
\* from the file name by the '.exe' suffix only.
C6_Witness ==
    /\ Len(vresults) = 1 /\ ~vresults[1]
    /\ CmdMatch(1).ok /\ CmdMatch(1).dir = plugin_name
    /\ CmdMatch(1).bin \o DOT_EXE = PathName(plugin_exe)

\* The name without one trailing '.exe'.
WithoutOneExe(s) == IF EndsWith(s, DOT_EXE) THEN SubSeq(s, 1, Len(s) - Len(DOT_EXE)) ELSE s

\* C7: a present OS-specific command, of the required shape and naming the
\* display name's directory, passes iff its binary segment and the built
\* executable's file name are equal once one trailing '.exe' is removed from
\* each; an absent, empty or "null" one always passes.
C7_OsBinaryModuloExe ==
    \A i \in 2..Len(vresults) :
       /\ ~PresentOs(OS_KEYS[i - 1]) => vresults[i]
       /\ (PresentOs(OS_KEYS[i - 1]) /\ CmdMatch(i).ok /\ CmdMatch(i).dir = plugin_name) =>
            (vresults[i] <=>
               WithoutOneExe(CmdMatch(i).bin) = WithoutOneExe(PathName(plugin_exe)))

\* C7 witness: an OS-specific command passed although its binary segment is
\* not the built file's name, and another one was skipped.
C7_Witness ==
    /\ Len(vresults) >= 3 /\ vresults[2] /\ vresults[3]
    /\ PresentOs(OS_KEYS[1]) /\ CmdMatch(2).bin # PathName(plugin_exe)
    /\ ~PresentOs(OS_KEYS[2])


----------------------------------------------------------------------------
(* install.py: trees of files *)

\* A tree is the set of entries under a directory: [path, kind, data] with
\* the path relative to the directory, kind "file", "dir" or "other" (an
\* entry for which both is_file() and is_dir() are false: a dangling symbolic
\* link, a FIFO, a socket), and every parent directory present as an entry.
DirData == [kind |-> "dir", bytes |-> "", json_ok |-> TRUE, data |-> <<>>]
OldData == [kind |-> "exe", bytes |-> "old", json_ok |-> TRUE, data |-> <<>>]
LinkData == [kind |-> "link", bytes |-> "", json_ok |-> TRUE, data |-> <<>>]

\* The directories above the path p.
Parents(p) == {SubSeq(p, 1, i - 1) : i \in {j \in 1..Len(p) : p[j] = SLASH}}

\* zipfile.ZipFile(tpp_file, 'r').extractall(temp_path): every member is
\* written under the target with the directories above it.
ExtractAll(members) ==
    {[path |-> m.path, kind |-> IF m.data.kind = "dir" THEN "dir" ELSE "file", data |-> m.data] :
        m \in members}
    \cup {[path |-> d, kind |-> "dir", data |-> DirData] : d \in UNION {Parents(m.path) : m \in members}}

\* Path.iterdir(): the entries directly under the directory.
IterDir(tree) == {e \in tree : FirstIndex(e.path, SLASH) = 0}

\* The tree under the directory d of the tree, relative to d.
Under(tree, d) ==
    {[path |-> SubSeq(e.path, Len(d) + 2, Len(e.path)), kind |-> e.kind, data |-> e.data] :
        e \in {x \in tree : StartsWith(x.path, d \o <<SLASH>>)}}

\* The entry and everything below it.
Subtree(tree, item) ==
    {e \in tree : e.path = item.path \/ StartsWith(e.path, item.path \o <<SLASH>>)}

\* extracted_dirs = [d for d in temp_path.iterdir() if d.is_dir()]
extracted_dirs(tree) == {e \in IterDir(tree) : e.kind = "dir"}

\* install_dir.mkdir(parents=True, exist_ok=True)
MkDir(dir) == [exists |-> TRUE, entries |-> dir.entries]

\* The entries the clearing loop removes: item.unlink() for a file,
\* shutil.rmtree(item) for a directory, nothing for any other entry.
Removable(tree) == {e \in IterDir(tree) : e.kind \in {"file", "dir"}}

\* The tree after the given items were removed.
RemoveItems(tree, items) ==
    tree \ UNION {Subtree(tree, item) : item \in items}

\* The entries the copy loop copies: files with copy2, directories with
\* copytree.
Copyable(tree) == {e \in IterDir(tree) : e.kind \in {"file", "dir"}}

\* shutil.copytree(item, dest_path) raises FileExistsError when dest_path
\* exists.
CopyClash(target, items) ==
    \E item \in items : item.kind = "dir" /\ \E e \in target : e.path = item.path

\* The target after the given items were copied into it from the source: a
\* copied file replaces the entry of its name.
CopyItems(target, source, items) ==
    {e \in target : \A item \in items : e.path # item.path}
    \cup UNION {Subtree(source, item) : item \in items}

\* sum(1 for _ in install_dir.rglob('*') if _.is_file())
CountFiles(tree) == Cardinality({e \in tree : e.kind = "file"})


----------------------------------------------------------------------------
(* install.py: inputs *)

T_README == <<"r","e","a","d","m","e">>
T_SUB_X == <<"s","u","b","/","x">>
T_OLD == <<"o","l","d">>
T_OD == <<"o","d">>
T_LNK == <<"l","n","k">>

ZipFileOf(state, members) == [state |-> state, entries |-> members, mtime |-> 1]

\* Files found at the output path when install.py starts: none, a file that
\* is no ZIP archive ("corrupt"), what package.py writes, and archives with
\* no, one and two top-level directories.
InstallArchives ==
    { NoArchive,
      ZipFileOf("corrupt", {}),
      ZipFileOf("complete", {[path |-> ArcName(N_FOO, B_BIN), data |-> ExeData("elf-1")],
                             [path |-> ArcName(N_FOO, ENTRY_TP_NAME), data |-> TpData(BadJson)]}),
      ZipFileOf("partial", {}),
      ZipFileOf("partial", {[path |-> ArcName(N_FOO, ENTRY_TP_NAME), data |-> TpData(BadJson)]}),
      ZipFileOf("complete", {[path |-> T_README, data |-> ExeData("txt")]}),
      ZipFileOf("complete", {[path |-> ArcName(N_FOO, B_BIN), data |-> ExeData("elf-1")],
                             [path |-> ArcName(N_BAR, B_BIN), data |-> ExeData("elf-2")]}),
      ZipFileOf("complete", {[path |-> ArcName(N_BAR, B_BIN), data |-> ExeData("elf-1")],
                             [path |-> ArcName(N_BAR, T_SUB_X), data |-> ExeData("x")],
                             [path |-> T_README, data |-> ExeData("txt")]}),
      ZipFileOf("complete", {[path |-> N_FOO, data |-> DirData]}) }

\* The install directory when install.py starts: absent, empty, holding
\* files and a directory of an earlier install, and holding an entry that is
\* neither a file nor a directory.
InstallDirs ==
    { NoDir,
      [exists |-> TRUE, entries |-> {}],
      [exists |-> TRUE, entries |->
          {[path |-> B_BIN, kind |-> "file", data |-> OldData],
           [path |-> T_OLD, kind |-> "file", data |-> OldData],
           [path |-> T_OD, kind |-> "dir", data |-> DirData],
           [path |-> ArcName(T_OD, T_LNK), kind |-> "other", data |-> LinkData]}],
      [exists |-> TRUE, entries |->
          {[path |-> T_OLD, kind |-> "file", data |-> OldData],
           [path |-> T_LNK, kind |-> "other", data |-> LinkData]}] }

\* What the package.py subprocess may leave behind, as established by the
\* pipeline specification: code 0 with the file untouched ('up to date') or
\* rewritten in full, code 1 with the file untouched or rewritten in part.
PackageOutcomes(old, name) ==
    {[code |-> 0, file |-> old], [code |-> 1, file |-> old]}
    \cup {[code |-> 0,
           file |-> ZipFileOf("complete", ZipEntries(old, name, o.exe, o.bytes, o.tp))] :
             o \in BuildOutputs}
    \cup {[code |-> 1, file |-> ZipFileOf("partial", w)] :
             w \in {{}} \cup {{[path |-> ArcName(name, B_BIN), data |-> ExeData("elf-1")]}}}

\* log_info(message): an indented line on standard output.
log_info(msg, arg) == [out |-> "stdout", msg |-> msg, arg |-> arg]

----------------------------------------------------------------------------
(* install.py: main() *)

pkgVars == <<clock, mtime, skewed, runs, source_time, package_time, plugin_exe,
             exe_bytes, entry_tp, validations, vresults, archive0, prev_wrote, stale>>

\* An install.py process is about to parse its arguments.
InitInstall ==
    /\ clock = 0
    /\ mtime = [f \in Files |-> 0]
    /\ skewed = FALSE
    /\ archive \in InstallArchives
    /\ plugin_name \in PluginNames
    /\ pc = "install.parse_args"
    /\ runs = 0
    /\ plugin_exe = <<>>
    /\ exe_bytes = ""
    /\ entry_tp = BadJson
    /\ archive0 = archive
    /\ prev_wrote = FALSE
    /\ stale = FALSE
    /\ dest \in InstallDirs
    /\ dest0 = dest
    /\ scratch = {}
    /\ pkg_exit = NoExit
    /\ file_count = 0
    /\ RunnerIdle
    /\ HelperIdle
    /\ InitRun

\* Command lines install.py is started with.
InstallArgv == {"", "--help-extended", "-h", "--bogus"}

\* parser.parse_args(): argparse prints the help and exits with 0 for -h,
\* prints a usage error and exits with 2 for an option it does not know.
\* main() returns after show_help() for --help-extended.
InstallParseArgs(argv) ==
    /\ pc = "install.parse_args"
    /\ IF argv = "--bogus" THEN Exit(2, <<log_error("unrecognized arguments", <<>>)>>)
       ELSE IF argv = "-h" THEN Exit(0, <<log_info("usage", <<>>)>>)
       ELSE IF argv = "--help-extended" THEN Exit(0, <<log_info("show_help", <<>>)>>)
       ELSE /\ pc' = "install.get_plugin_config"
            /\ log' = Append(log, log_step("TouchPortal Plugin Installer", <<>>))
            /\ UNCHANGED exit_code
    /\ UNCHANGED <<pkgVars, archive, plugin_name, calls, toolVars>>

\* plugin_name, _, tpp_file = get_plugin_config()
InstallGetPluginConfig(ok) ==
    /\ pc = "install.get_plugin_config"
    /\ IF ok /\ ~Falsy(plugin_name)
       THEN /\ pc' = "install.check_requirements"
            /\ UNCHANGED <<exit_code, log>>
       ELSE Exit(1, <<log_error("get_plugin_config failed", <<>>)>>)
    /\ UNCHANGED <<pkgVars, archive, plugin_name, calls, toolVars>>

\* check_requirements(["python3"])
InstallCheckRequirements(ok) ==
    /\ pc = "install.check_requirements"
    /\ IF ok
       THEN /\ pc' = "install.ensure_plugin_packaged"
            /\ UNCHANGED <<exit_code, log>>
       ELSE Exit(1, <<log_error("Missing required tools", <<>>)>>)
    /\ UNCHANGED <<pkgVars, archive, plugin_name, calls, toolVars>>

\* Fault: the subprocess is run without check=True.
EnsurePluginPackaged_Unchecked(out) ==
    /\ pc = "install.ensure_plugin_packaged"
    /\ calls' = calls \cup {"ensure_plugin_packaged"}
    /\ pkg_exit' = out.code
    /\ archive' = out.file
    /\ pc' = "install.extractall"
    /\ UNCHANGED <<exit_code, log>>
    /\ UNCHANGED <<pkgVars, plugin_name, dest, scratch, file_count, dest0, runnerVars, helperVars>>

\* ensure_plugin_packaged(): package.py runs to its end as a subprocess; a
\* non-zero exit status raises CalledProcessError and the process exits
\* with 1.
EnsurePluginPackaged(out) ==
    /\ pc = "install.ensure_plugin_packaged"
    /\ calls' = calls \cup {"ensure_plugin_packaged"}
    /\ pkg_exit' = out.code
    /\ archive' = out.file
    /\ IF out.code = 0
       THEN /\ pc' = "install.extractall"
            /\ UNCHANGED <<exit_code, log>>
       ELSE Exit(1, <<log_error("Failed to package plugin", <<>>)>>)
    /\ UNCHANGED <<pkgVars, plugin_name, dest, scratch, file_count, dest0, runnerVars, helperVars>>


----------------------------------------------------------------------------
(* install.py: install_plugin() *)

installFixed == <<pkgVars, archive, plugin_name, pkg_exit, dest0, runnerVars, helperVars>>

\* Fault: the install directory is created before the archive is opened.
InstallExtract_MkdirFirst(ok) ==
    /\ pc = "install.extractall"
    /\ dest' = MkDir(dest)
    /\ IF archive.state = "absent" \/ ~ok
       THEN /\ Exit(1, <<log_error("Failed to install plugin files", <<>>)>>)
            /\ calls' = calls \cup {"install_plugin"}
            /\ scratch' = {}
       ELSE IF archive.state = "corrupt"
       THEN /\ Exit(1, <<log_error("Invalid .tpp file", <<>>)>>)
            /\ calls' = calls \cup {"install_plugin"}
            /\ scratch' = {}
       ELSE /\ scratch' = ExtractAll(archive.entries)
            /\ calls' = calls \cup {"install_plugin", "extractall"}
            /\ pc' = "install.find_dir"
            /\ UNCHANGED <<exit_code, log>>
    /\ UNCHANGED <<installFixed, file_count>>

\* with zipfile.ZipFile(tpp_file, 'r') as zip_file: zip_file.extractall(temp_path)
\* A missing file raises FileNotFoundError and a failing extraction OSError
\* ('Failed to install plugin files'), a file that is no ZIP archive
\* BadZipFile ('Invalid .tpp file'); the temporary directory is removed.
InstallExtract(ok) ==
    /\ pc = "install.extractall"
    /\ IF archive.state = "absent" \/ ~ok
       THEN /\ Exit(1, <<log_error("Failed to install plugin files", <<>>)>>)
            /\ calls' = calls \cup {"install_plugin"}
            /\ scratch' = {}
       ELSE IF archive.state = "corrupt"
       THEN /\ Exit(1, <<log_error("Invalid .tpp file", <<>>)>>)
            /\ calls' = calls \cup {"install_plugin"}
            /\ scratch' = {}
       ELSE /\ scratch' = ExtractAll(archive.entries)
            /\ calls' = calls \cup {"install_plugin", "extractall"}
            /\ pc' = "install.find_dir"
            /\ UNCHANGED <<exit_code, log>>
    /\ UNCHANGED <<installFixed, dest, file_count>>

\* extracted_dir = extracted_dirs[0]
extracted_dir(tree) == CHOOSE d \in extracted_dirs(tree) : TRUE

\* The tree under extracted_dir; nothing while no directory was extracted.
ExtractedTree(tree) ==
    IF extracted_dirs(tree) = {} THEN {} ELSE Under(tree, extracted_dir(tree).path)

\* Fault: with several directories the first one is installed.
InstallFindDir_FirstOfMany ==
    /\ pc = "install.find_dir"
    /\ IF extracted_dirs(scratch) = {}
       THEN /\ Exit(1, <<log_error("No plugin directory found", <<>>)>>)
            /\ scratch' = {}
       ELSE /\ pc' = "install.mkdir"
            /\ UNCHANGED <<exit_code, log, scratch>>
    /\ UNCHANGED <<installFixed, calls, dest, file_count>>

\* if not extracted_dirs: ... sys.exit(1); if len(extracted_dirs) > 1: ...
\* sys.exit(1)
InstallFindDir ==
    /\ pc = "install.find_dir"
    /\ IF extracted_dirs(scratch) = {}
       THEN /\ Exit(1, <<log_error("No plugin directory found", <<>>)>>)
            /\ scratch' = {}
       ELSE IF Cardinality(extracted_dirs(scratch)) > 1
       THEN /\ Exit(1, <<log_error("Multiple directories found", <<>>)>>)
            /\ scratch' = {}
       ELSE /\ pc' = "install.mkdir"
            /\ UNCHANGED <<exit_code, log, scratch>>
    /\ UNCHANGED <<installFixed, calls, dest, file_count>>

\* install_dir.mkdir(parents=True, exist_ok=True); an OSError ends the
\* process with 'Failed to install plugin files'.
InstallMkdir(ok) ==
    /\ pc = "install.mkdir"
    /\ IF ok
       THEN /\ dest' = MkDir(dest)
            /\ pc' = "install.clear"
            /\ UNCHANGED <<exit_code, log, scratch>>
       ELSE /\ Exit(1, <<log_error("Failed to install plugin files", <<>>)>>)
            /\ scratch' = {}
            /\ UNCHANGED dest
    /\ UNCHANGED <<installFixed, calls, file_count>>

\* for item in install_dir.iterdir(): unlink a file, rmtree a directory.
\* The loop removes the given items; it raises OSError before the others
\* when they are not all it has to remove.
InstallClear(removed) ==
    /\ pc = "install.clear"
    /\ removed \subseteq Removable(dest.entries)
    /\ dest' = [dest EXCEPT !.entries = RemoveItems(dest.entries, removed)]
    /\ calls' = calls \cup {"clear"}
    /\ IF removed = Removable(dest.entries)
       THEN /\ pc' = "install.copy"
            /\ UNCHANGED <<exit_code, log, scratch>>
       ELSE /\ Exit(1, <<log_error("Failed to install plugin files", <<>>)>>)
            /\ scratch' = {}
    /\ UNCHANGED <<installFixed, file_count>>

\* for item in extracted_dir.iterdir(): copy2 a file, copytree a directory.
\* The loop copies the given items; it raises OSError before the others when
\* they are not all it has to copy.
InstallCopy(copied) ==
    LET source == ExtractedTree(scratch)
    IN  /\ pc = "install.copy"
        /\ copied \subseteq Copyable(source)
        /\ ~CopyClash(dest.entries, copied)
        /\ dest' = [dest EXCEPT !.entries = CopyItems(dest.entries, source, copied)]
        /\ calls' = calls \cup {"copy"}
        /\ IF copied = Copyable(source)
           THEN /\ pc' = "install.count"
                /\ UNCHANGED <<exit_code, log, scratch>>
           ELSE /\ Exit(1, <<log_error("Failed to install plugin files", <<>>)>>)
                /\ scratch' = {}
        /\ UNCHANGED <<installFixed, file_count>>

\* file_count is reported, install_plugin() returns and main() prints
\* 'Installation complete'.
InstallCount ==
    /\ pc = "install.count"
    /\ file_count' = CountFiles(dest.entries)
    /\ scratch' = {}
    /\ Exit(0, <<log_info("Installed", <<>>), log_step("Installation complete", <<>>)>>)
    /\ UNCHANGED <<installFixed, calls, dest>>

InstallPlugin ==
    \/ \E ok \in BOOLEAN : InstallExtract(ok)
    \/ InstallFindDir
    \/ \E ok \in BOOLEAN : InstallMkdir(ok)
    \/ \E removed \in SUBSET Removable(dest.entries) : InstallClear(removed)
    \/ \E copied \in SUBSET Copyable(ExtractedTree(scratch)) : InstallCopy(copied)
    \/ InstallCount

NextInstall ==
    \/ \E argv \in InstallArgv : InstallParseArgs(argv)
    \/ \E ok \in BOOLEAN : InstallGetPluginConfig(ok)
    \/ \E ok \in BOOLEAN : InstallCheckRequirements(ok)
    \/ \E out \in PackageOutcomes(archive, plugin_name) : EnsurePluginPackaged(out)
    \/ InstallPlugin

\* The installer on the files it finds.
SpecInstall == InitInstall /\ [][NextInstall]_vars


----------------------------------------------------------------------------
(* Properties of the installer (SpecInstall) *)

\* The first component of a path.
FirstComponent(p) ==
    IF FirstIndex(p, SLASH) = 0 THEN p ELSE SubSeq(p, 1, FirstIndex(p, SLASH) - 1)

\* The names of the top-level directories of an archive.
TopDirNames(file) ==
    {FirstComponent(m.path) :
        m \in {x \in file.entries : FirstIndex(x.path, SLASH) # 0 \/ x.data.kind = "dir"}}

InstallExited == pc = "exited" /\ "install_plugin" \in calls
Extracted == "extractall" \in calls

\* C11: when the extracted archive does not hold exactly one top-level
\* directory, install_plugin exits with code 1 and the message 'No plugin
\* directory found' (none) or 'Multiple directories found' (two or more), and
\* the install directory is left as it was: not created, cleared or written.
C11_NotOneDirectoryRejected ==
    (Extracted /\ Cardinality(TopDirNames(archive)) # 1) =>
        /\ dest = dest0
        /\ pc \in {"install.find_dir", "exited"}
        /\ pc = "exited" =>
             /\ exit_code = 1
             /\ HasErrorLine(IF TopDirNames(archive) = {} THEN "No plugin directory found"
                             ELSE "Multiple directories found", <<>>)

C11_Witness ==
    /\ InstallExited
    /\ Extracted
    /\ Cardinality(TopDirNames(archive)) = 2
    /\ dest0.entries # {}

\* C12: when the archive is no valid ZIP file or its extraction fails, the
\* process exits with code 1 and the install directory keeps its contents;
\* nothing creates, clears or writes it before the extraction is complete.
C12_BadArchiveLeavesDestination ==
    /\ ~Extracted => dest = dest0
    /\ ("install_plugin" \in calls /\ ~Extracted) => (pc = "exited" /\ exit_code = 1)

C12_Witness ==
    /\ InstallExited
    /\ ~Extracted
    /\ archive.state = "corrupt"
    /\ dest0.entries # {}
    /\ HasErrorLine("Invalid .tpp file", <<>>)

\* The tree under the single top-level directory of the archive.
ArchiveDirTree(file) ==
    Under(ExtractAll(file.entries), CHOOSE d \in TopDirNames(file) : TRUE)

\* C13: after install_plugin succeeds the install directory holds exactly the
\* files and directories of the archive's single top-level directory, no
\* entry it held before and the archive lacks is left, and the reported file
\* count is the number of files copied.
C13_DestinationMirrorsArchive ==
    (InstallExited /\ exit_code = 0) =>
        /\ dest.exists
        /\ dest.entries = ArchiveDirTree(archive)
        /\ file_count = Cardinality({e \in ArchiveDirTree(archive) : e.kind = "file"})

\* C14: the archive is extracted and the install directory changed only after
\* the package.py subprocess has exited with 0; when it exits with another
\* code the installer exits with 1 and the install directory is untouched.
C14_PackagingPrecedesInstallation ==
    /\ ("install_plugin" \in calls \/ scratch # {} \/ dest # dest0) => pkg_exit = 0
    /\ pkg_exit \notin {NoExit, 0} => (pc = "exited" /\ exit_code = 1 /\ dest = dest0)

C14_Witness ==
    /\ pc = "exited"
    /\ pkg_exit = 1
    /\ archive.state = "complete"
    /\ Cardinality(TopDirNames(archive)) = 1
    /\ dest0.exists
    /\ HasErrorLine("Failed to package plugin", <<>>)


----------------------------------------------------------------------------
(* Test runners: inputs *)

\* Number of component names a command line may give.
MaxPlugins == 2

\* run_plugin_test(plugin_dir, timeout_seconds=30)
TimeoutSeconds == 30

\* test_runtime_behaviours.py, run_feature_tests.py, test_validation_failures.py
Scripts == {"runtime", "feature", "validation"}

\* Names of component directories; "zz" is no component.
Names == {"a", "b"}
ArgNames == Names \cup {"zz"}

\* Sequences over S of length at most n.
SeqsUpTo(S, n) == UNION {[1..k -> S] : k \in 0..n}

\* The orders in which the members of a set may be listed.
Orders(S) == {q \in [1..Cardinality(S) -> S] : \A x \in S : \E i \in DOMAIN q : q[i] = x}

\* Command lines: -h, an option the parser does not know, or component names
\* with or without --coverage (an option of run_feature_tests.py only).
ArgsOf(s) ==
    { [help |-> TRUE, bogus |-> FALSE, coverage |-> FALSE, plugins |-> <<>>],
      [help |-> FALSE, bogus |-> TRUE, coverage |-> FALSE, plugins |-> <<>>] }
    \cup { [help |-> FALSE, bogus |-> FALSE, coverage |-> c, plugins |-> q] :
             c \in (IF s = "feature" THEN BOOLEAN ELSE {FALSE}),
             q \in SeqsUpTo(ArgNames, MaxPlugins) }

\* "MockTouchPortalServer"
MOCK_MARKER ==
    <<"M","o","c","k","T","o","u","c","h","P","o","r","t","a","l","S","e","r","v","e","r">>

\* sub in s
Contains(s, sub) ==
    \E i \in 0..(Len(s) - Len(sub)) : SubSeq(s, i + 1, i + Len(sub)) = sub

\* The file src/main.rs of a component: missing, unreadable, and readable
\* with and without the marker in it.
MainRsFiles ==
    { [exists |-> FALSE, readable |-> FALSE, content |-> <<>>],
      [exists |-> TRUE, readable |-> FALSE, content |-> MOCK_MARKER],
      [exists |-> TRUE, readable |-> TRUE, content |-> <<>>],
      [exists |-> TRUE, readable |-> TRUE, content |-> <<"m">> \o Tail(MOCK_MARKER)],
      [exists |-> TRUE, readable |-> TRUE, content |-> <<":">> \o MOCK_MARKER \o <<":">>] }

\* Fault: every component with a src/main.rs is taken to have mock support.
has_mock_support_Exists(main_rs) == main_rs.exists

\* has_mock_support
has_mock_support(main_rs) ==
    IF ~main_rs.exists THEN FALSE
    ELSE IF ~main_rs.readable THEN FALSE
    ELSE Contains(main_rs.content, MOCK_MARKER)

\* What a component does when it is built and run: whether and in how many
\* seconds it compiles, after how many seconds its binary exits and with
\* which code, and whether 'cargo run' replaces itself by the binary (exec)
\* or starts it as a child process of its own.
Behaviours ==
    { [build_ok |-> TRUE, build_secs |-> 1, run_secs |-> 1, code |-> 0, mode |-> "exec"],
      [build_ok |-> TRUE, build_secs |-> 1, run_secs |-> 1, code |-> 1, mode |-> "child"],
      [build_ok |-> TRUE, build_secs |-> 40, run_secs |-> 1, code |-> 0, mode |-> "exec"],
      [build_ok |-> TRUE, build_secs |-> 1, run_secs |-> 40, code |-> 0, mode |-> "exec"],
      [build_ok |-> TRUE, build_secs |-> 1, run_secs |-> 40, code |-> 0, mode |-> "child"],
      [build_ok |-> FALSE, build_secs |-> 1, run_secs |-> 0, code |-> 0, mode |-> "exec"],
      [build_ok |-> FALSE, build_secs |-> 40, run_secs |-> 0, code |-> 0, mode |-> "child"] }


NoBehaviour == [build_ok |-> FALSE, build_secs |-> 0, run_secs |-> 0, code |-> 0, mode |-> "none"]

\* Seconds 'cargo run --quiet' spends before it starts the binary:
\* run_feature_tests.py has built the component in its step 1,
\* test_runtime_behaviours.py has not, so there 'cargo run' compiles first.
SecondsBeforeRun(s, b) == IF s = "runtime" THEN b.build_secs ELSE 0

\* Seconds from the start of 'cargo run --quiet' to its end, were it left
\* alone: a failed compilation ends it without running the binary.
CargoRunSecs(s, b) == SecondsBeforeRun(s, b) + (IF b.build_ok THEN b.run_secs ELSE 0)

\* The exit status of 'cargo run --quiet': the binary's, or 101 when the
\* compilation fails.
CargoRunCode(b) == IF b.build_ok THEN b.code ELSE 101

\* Fault: the timeout is not passed to subprocess.run.
run_result_NoTimeout(s, b) ==
    IF CargoRunCode(b) = 0
    THEN [success |-> TRUE, message |-> "PASSED"]
    ELSE [success |-> FALSE, message |-> "FAILED (exit code)"]

\* run_plugin_test(): subprocess.run(["cargo", "run", "--quiet"],
\* timeout=timeout_seconds) and the classification of its outcome.
run_result(s, b) ==
    IF CargoRunSecs(s, b) > TimeoutSeconds
    THEN [success |-> FALSE, message |-> "FAILED (timed out)"]
    ELSE IF CargoRunCode(b) = 0
    THEN [success |-> TRUE, message |-> "PASSED"]
    ELSE [success |-> FALSE, message |-> "FAILED (exit code)"]

\* The processes that exist for the n-th component while subprocess.run
\* waits: the one it started ("spawned": cargo, which on exec becomes the
\* binary) and, when cargo starts the binary as a child of its own, that
\* child ("plugin").
Spawned(s, b, n) ==
    {[of |-> n, role |-> "spawned"]}
    \cup (IF b.mode = "child" /\ b.build_ok /\ SecondsBeforeRun(s, b) <= TimeoutSeconds
          THEN {[of |-> n, role |-> "plugin"]} ELSE {})

\* subprocess.run returns when the process it started has ended; cargo ends
\* after the binary it started.
Ended(ps, n) == {q \in ps : q.of # n}

\* subprocess.run on TimeoutExpired: process.kill(); process.wait(). Only
\* the process it started is killed.
KillOnTimeout(ps, n) == {q \in ps : ~(q.of = n /\ q.role = "spawned")}

\* Fault: the exit status does not depend on the failed count.
ExitStatus_Zero(failed) == 0

\* sys.exit(0) if failed_plugins == 0, else sys.exit(1)
ExitStatus(failed) == IF failed = 0 THEN 0 ELSE 1

\* str.strip(): leading and trailing whitespace is removed.
Whitespace == {SP, NL, "\t"}
Strip(s) ==
    LET keep == {i \in 1..Len(s) : s[i] \notin Whitespace}
    IN  IF keep = {} THEN <<>>
        ELSE SubSeq(s, CHOOSE i \in keep : \A j \in keep : i <= j,
                       CHOOSE i \in keep : \A j \in keep : j <= i)

\* get_expected_error(plugin_dir): None without the file or when it cannot
\* be read, else its stripped content.
get_expected_error(file) ==
    IF ~file.exists THEN None
    ELSE IF ~file.readable THEN None
    ELSE Strip(file.content)

\* The file expected-error.txt of a component.
E_1 == <<"E","1">>
NoFile == [exists |-> FALSE, readable |-> FALSE, content |-> <<>>]
TextFile(content) == [exists |-> TRUE, readable |-> TRUE, content |-> content]
UnreadableFile(content) == [exists |-> TRUE, readable |-> FALSE, content |-> content]

\* A component of the validation-failure workspace: whether its directory
\* exists, whether its Cargo.toml names a package, its expected-error.txt,
\* whether 'cargo check' succeeds and what it writes to standard error.
ValidationCase(d, n, f, ok, err) ==
    [dir_exists |-> d, package_name |-> n, file |-> f, check_ok |-> ok, stderr |-> err]

ValidationCases ==
    { ValidationCase(FALSE, FALSE, NoFile, FALSE, <<>>),
      ValidationCase(TRUE, FALSE, TextFile(E_1), FALSE, E_1),
      ValidationCase(TRUE, TRUE, NoFile, TRUE, <<>>),
      ValidationCase(TRUE, TRUE, NoFile, FALSE, E_1),
      ValidationCase(TRUE, TRUE, TextFile(E_1 \o <<NL>>), TRUE, <<>>),
      ValidationCase(TRUE, TRUE, TextFile(E_1 \o <<NL>>), TRUE, <<"w",":">> \o E_1),
      ValidationCase(TRUE, TRUE, TextFile(E_1 \o <<NL>>), FALSE, <<":">> \o E_1 \o <<":">>),
      ValidationCase(TRUE, TRUE, TextFile(E_1), FALSE, E_1),
      ValidationCase(TRUE, TRUE, TextFile(E_1 \o <<NL>>), FALSE, <<"E","2">>),
      ValidationCase(TRUE, TRUE, TextFile(<<NL>>), FALSE, <<"E","2">>),
      ValidationCase(TRUE, TRUE, UnreadableFile(E_1), TRUE, <<>>),
      ValidationCase(TRUE, TRUE, UnreadableFile(E_1), FALSE, E_1) }

\* Fault: the error output has to equal the expected text.
test_plugin_Equality(c) ==
    IF ~c.dir_exists
    THEN [success |-> FALSE, message |-> "ERROR: Plugin directory does not exist"]
    ELSE IF ~c.package_name
    THEN [success |-> FALSE, message |-> "ERROR: Cargo.toml not found or invalid"]
    ELSE IF get_expected_error(c.file) = None
    THEN IF c.check_ok
         THEN [success |-> TRUE, message |-> "compiled successfully (expected - validation gap)"]
         ELSE [success |-> FALSE, message |-> "failed compilation - validation may have been implemented!"]
    ELSE IF c.check_ok
    THEN [success |-> FALSE, message |-> "compiled successfully, but it should have failed!"]
    ELSE IF c.stderr = get_expected_error(c.file)
    THEN [success |-> TRUE, message |-> "failed with expected error"]
    ELSE [success |-> FALSE, message |-> "failed with unexpected error"]

\* test_plugin(plugin): (status_message, success)
test_plugin(c) ==
    IF ~c.dir_exists
    THEN [success |-> FALSE, message |-> "ERROR: Plugin directory does not exist"]
    ELSE IF ~c.package_name
    THEN [success |-> FALSE, message |-> "ERROR: Cargo.toml not found or invalid"]
    ELSE IF get_expected_error(c.file) = None
    THEN IF c.check_ok
         THEN [success |-> TRUE, message |-> "compiled successfully (expected - validation gap)"]
         ELSE [success |-> FALSE, message |-> "failed compilation - validation may have been implemented!"]
    ELSE IF c.check_ok
    THEN [success |-> FALSE, message |-> "compiled successfully, but it should have failed!"]
    ELSE IF Contains(c.stderr, get_expected_error(c.file))
    THEN [success |-> TRUE, message |-> "failed with expected error"]
    ELSE [success |-> FALSE, message |-> "failed with unexpected error"]

\* test_plugin(plugin) runs 'cargo check'.
RunsCargoCheck(c) == c.dir_exists /\ c.package_name


----------------------------------------------------------------------------
(* Test runners: main() *)

\* A test runner is about to parse its arguments. The validation-failure
\* runner may be started outside its directory.
InitRunner ==
    /\ clock = 0
    /\ mtime = [f \in Files |-> 0]
    /\ skewed = FALSE
    /\ archive = NoArchive
    /\ plugin_name = N_FOO
    /\ pc = "run.parse_args"
    /\ runs = 0
    /\ plugin_exe = <<>>
    /\ exe_bytes = ""
    /\ entry_tp = BadJson
    /\ archive0 = NoArchive
    /\ prev_wrote = FALSE
    /\ stale = FALSE
    /\ dest = NoDir
    /\ scratch = {}
    /\ pkg_exit = NoExit
    /\ file_count = 0
    /\ dest0 = NoDir
    /\ HelperIdle
    /\ InitRun
    /\ script \in Scripts
    /\ args \in ArgsOf(script)
    /\ available_plugins \in SUBSET Names
    /\ queue = <<>>
    /\ idx = 0
    /\ total_plugins = 0
    /\ tested_plugins = 0
    /\ skipped_plugins = 0
    /\ failed_plugins = 0
    /\ tested_list = <<>>
    /\ cwd \in (IF script = "validation" THEN {ROOT, "elsewhere"} ELSE {ROOT})
    /\ original_dir = ROOT
    /\ procs = {}
    /\ cur = NoComponent
    /\ verdicts = <<>>
    /\ summary = NoSummary

runnerFixed == <<pkgVars, archive, plugin_name, calls, installVars, helperVars,
                 script, args, available_plugins>>
counters == <<total_plugins, tested_plugins, skipped_plugins, failed_plugins, tested_list>>

\* An uncaught exception: the traceback is printed, the exit status is 1.
Traceback == log_error("Traceback", <<>>)

\* The component names given that name no component.
unknown_plugins == {i \in DOMAIN args.plugins : args.plugins[i] \notin available_plugins}

\* main() up to the loop: parse_args() exits with 2 on an option it does not
\* know; -h prints the usage and ends with 0; the validation-failure runner
\* changes to its directory and requires workspace members; a name that is
\* no component ends the process with 1; without names all components are
\* selected, in the order they are listed.
RunnerParseArgs(order) ==
    /\ pc = "run.parse_args"
    /\ IF args.bogus
       THEN /\ Exit(2, <<log_error("unrecognized arguments", <<>>)>>)
            /\ UNCHANGED <<queue, cwd>>
       ELSE IF args.help
       THEN /\ Exit(0, <<log_info("usage", <<>>)>>)
            /\ UNCHANGED <<queue, cwd>>
       ELSE IF script = "validation" /\ available_plugins = {}
       THEN /\ Exit(1, <<log_error("No workspace members found in Cargo.toml", <<>>)>>)
            /\ cwd' = ROOT
            /\ UNCHANGED queue
       ELSE IF unknown_plugins # {}
       THEN /\ Exit(1, <<log_error("Unknown plugin names", <<>>)>>)
            /\ cwd' = ROOT
            /\ UNCHANGED queue
       ELSE /\ queue' = IF args.plugins # <<>> THEN args.plugins ELSE order
            /\ cwd' = ROOT
            /\ pc' = IF args.coverage THEN "run.coverage_setup" ELSE "run.loop"
            /\ UNCHANGED <<exit_code, log>>
    /\ UNCHANGED <<runnerFixed, idx, counters, original_dir, procs, cur, verdicts, summary>>

\* run_feature_tests.py --coverage: setup_coverage_env() and
\* clean_coverage_workspace(); a failure of either ends the process with 1.
RunnerCoverageSetup(ok) ==
    /\ pc = "run.coverage_setup"
    /\ IF ok
       THEN /\ pc' = "run.loop"
            /\ UNCHANGED <<exit_code, log>>
       ELSE Exit(1, <<log_error("FAILED (could not set up coverage environment)", <<>>)>>)
    /\ UNCHANGED <<runnerFixed, queue, idx, counters, cwd, original_dir, procs, cur, verdicts, summary>>

\* The loop of test_runtime_behaviours.py and run_feature_tests.py takes the
\* next component: it is skipped without mock support, tested otherwise.
RunnerHasMockSupport(main_rs) ==
    /\ pc = "run.loop"
    /\ script \in {"runtime", "feature"}
    /\ idx < Len(queue)
    /\ total_plugins' = total_plugins + 1
    /\ IF has_mock_support(main_rs)
       THEN /\ cur' = [name |-> queue[idx + 1], main_rs |-> main_rs,
                       b |-> NoBehaviour, raised |-> FALSE,
                       success |-> FALSE, message |-> ""]
            /\ pc' = "run.chdir"
            /\ UNCHANGED <<idx, skipped_plugins, verdicts>>
       ELSE /\ skipped_plugins' = skipped_plugins + 1
            /\ verdicts' = Append(verdicts, [name |-> queue[idx + 1], main_rs |-> main_rs,
                                             mock |-> FALSE, b |-> NoBehaviour,
                                             verdict |-> "skipped", message |-> "SKIPPED (no mock support)"])
            /\ idx' = idx + 1
            /\ UNCHANGED <<cur, pc>>
    /\ UNCHANGED <<runnerFixed, queue, tested_plugins, failed_plugins, tested_list>>
    /\ UNCHANGED <<exit_code, log, cwd, original_dir, procs, summary>>

\* run_plugin_test(): original_dir = Path.cwd(); os.chdir(plugin_dir). The
\* component behaves in one of the ways considered.
TestEnter(b) ==
    /\ pc = "run.chdir"
    /\ original_dir' = cwd
    /\ cwd' = cur.name
    /\ cur' = [cur EXCEPT !.b = b]
    /\ pc' = IF script = "feature" THEN "run.build" ELSE "run.spawn"
    /\ UNCHANGED <<runnerFixed, queue, idx, counters, procs, verdicts, summary, exit_code, log>>

\* run_feature_tests.py, step 1: subprocess.run(["cargo", "build", "--quiet"])
\* without a timeout. FileNotFoundError (no cargo) is not caught.
TestBuild(found) ==
    /\ pc = "run.build"
    /\ cur' = IF ~found THEN [cur EXCEPT !.raised = TRUE]
              ELSE IF ~cur.b.build_ok
                   THEN [cur EXCEPT !.success = FALSE, !.message = "FAILED (build failed)"]
                   ELSE cur
    /\ pc' = IF found /\ cur.b.build_ok THEN "run.spawn" ELSE "run.finally"
    /\ UNCHANGED <<runnerFixed, queue, idx, counters, cwd, original_dir, procs, verdicts, summary>>
    /\ UNCHANGED <<exit_code, log>>

\* subprocess.run(["cargo", "run", "--quiet"], timeout=timeout_seconds)
\* starts the process. FileNotFoundError (no cargo) is not caught.
TestSpawn(found) ==
    /\ pc = "run.spawn"
    /\ IF found
       THEN /\ procs' = procs \cup Spawned(script, cur.b, idx + 1)
            /\ pc' = "run.wait"
            /\ UNCHANGED cur
       ELSE /\ cur' = [cur EXCEPT !.raised = TRUE]
            /\ pc' = "run.finally"
            /\ UNCHANGED procs
    /\ UNCHANGED <<runnerFixed, queue, idx, counters, cwd, original_dir, verdicts, summary>>
    /\ UNCHANGED <<exit_code, log>>

\* subprocess.run returns or raises TimeoutExpired after killing the process
\* it started; the outcome is classified.
TestWait ==
    /\ pc = "run.wait"
    /\ procs' = IF CargoRunSecs(script, cur.b) > TimeoutSeconds
                THEN KillOnTimeout(procs, idx + 1) ELSE Ended(procs, idx + 1)
    /\ cur' = [cur EXCEPT !.success = run_result(script, cur.b).success,
                          !.message = run_result(script, cur.b).message]
    /\ pc' = "run.finally"
    /\ UNCHANGED <<runnerFixed, queue, idx, counters, cwd, original_dir, verdicts, summary>>
    /\ UNCHANGED <<exit_code, log>>

\* Fault: the loop is left at the first failed component.
TestFinally_StopOnFailure ==
    /\ pc = "run.finally"
    /\ cwd' = original_dir
    /\ IF cur.raised
       THEN /\ Exit(1, <<Traceback>>)
            /\ UNCHANGED <<idx, counters, verdicts>>
       ELSE /\ tested_plugins' = IF cur.success THEN tested_plugins + 1 ELSE tested_plugins
            /\ tested_list' = IF cur.success /\ script = "feature"
                              THEN Append(tested_list, cur.name) ELSE tested_list
            /\ failed_plugins' = IF cur.success THEN failed_plugins ELSE failed_plugins + 1
            /\ verdicts' = Append(verdicts, [name |-> cur.name, main_rs |-> cur.main_rs,
                                             mock |-> TRUE, b |-> cur.b,
                                             verdict |-> IF cur.success THEN "passed" ELSE "failed",
                                             message |-> cur.message])
            /\ idx' = idx + 1
            /\ pc' = IF cur.success THEN "run.loop" ELSE "run.summary"
            /\ UNCHANGED <<total_plugins, skipped_plugins, exit_code, log>>
    /\ cur' = NoComponent
    /\ UNCHANGED <<runnerFixed, queue, original_dir, procs, summary>>

\* run_plugin_test(): finally: os.chdir(original_dir); then main() counts
\* the result, or the exception ends the process.
TestFinally ==
    /\ pc = "run.finally"
    /\ cwd' = original_dir
    /\ IF cur.raised
       THEN /\ Exit(1, <<Traceback>>)
            /\ UNCHANGED <<idx, counters, verdicts>>
       ELSE /\ tested_plugins' = IF cur.success THEN tested_plugins + 1 ELSE tested_plugins
            /\ tested_list' = IF cur.success /\ script = "feature"
                              THEN Append(tested_list, cur.name) ELSE tested_list
            /\ failed_plugins' = IF cur.success THEN failed_plugins ELSE failed_plugins + 1
            /\ verdicts' = Append(verdicts, [name |-> cur.name, main_rs |-> cur.main_rs,
                                             mock |-> TRUE, b |-> cur.b,
                                             verdict |-> IF cur.success THEN "passed" ELSE "failed",
                                             message |-> cur.message])
            /\ idx' = idx + 1
            /\ pc' = "run.loop"
            /\ UNCHANGED <<total_plugins, skipped_plugins, exit_code, log>>
    /\ cur' = NoComponent
    /\ UNCHANGED <<runnerFixed, queue, original_dir, procs, summary>>

\* Fault: a validation gap is counted with the passed components.
ValidationTest_CountsPassed(c, found) ==
    /\ pc = "run.loop"
    /\ script = "validation"
    /\ idx < Len(queue)
    /\ total_plugins' = total_plugins + 1
    /\ IF RunsCargoCheck(c) /\ ~found
       THEN /\ Exit(1, <<Traceback>>)
            /\ UNCHANGED <<idx, tested_plugins, skipped_plugins, failed_plugins, verdicts>>
       ELSE LET r == test_plugin(c)
                is_uncaught == FALSE
            IN  /\ tested_plugins' = IF r.success /\ ~is_uncaught
                                     THEN tested_plugins + 1 ELSE tested_plugins
                /\ skipped_plugins' = IF r.success /\ is_uncaught
                                      THEN skipped_plugins + 1 ELSE skipped_plugins
                /\ failed_plugins' = IF r.success THEN failed_plugins ELSE failed_plugins + 1
                /\ verdicts' = Append(verdicts, [name |-> queue[idx + 1], case |-> c,
                                                 verdict |-> IF ~r.success THEN "failed"
                                                             ELSE IF is_uncaught THEN "uncaught"
                                                             ELSE "passed",
                                                 message |-> r.message])
                /\ idx' = idx + 1
                /\ UNCHANGED <<pc, exit_code, log>>
    /\ UNCHANGED <<runnerFixed, queue, tested_list, cwd, original_dir, procs, cur, summary>>

\* The loop of test_validation_failures.py takes the next component:
\* is_uncaught is whether expected-error.txt is missing, test_plugin() gives
\* the result. FileNotFoundError (no cargo) is not caught.
ValidationTest(c, found) ==
    /\ pc = "run.loop"
    /\ script = "validation"
    /\ idx < Len(queue)
    /\ total_plugins' = total_plugins + 1
    /\ IF RunsCargoCheck(c) /\ ~found
       THEN /\ Exit(1, <<Traceback>>)
            /\ UNCHANGED <<idx, tested_plugins, skipped_plugins, failed_plugins, verdicts>>
       ELSE LET r == test_plugin(c)
                is_uncaught == get_expected_error(c.file) = None
            IN  /\ tested_plugins' = IF r.success /\ ~is_uncaught
                                     THEN tested_plugins + 1 ELSE tested_plugins
                /\ skipped_plugins' = IF r.success /\ is_uncaught
                                      THEN skipped_plugins + 1 ELSE skipped_plugins
                /\ failed_plugins' = IF r.success THEN failed_plugins ELSE failed_plugins + 1
                /\ verdicts' = Append(verdicts, [name |-> queue[idx + 1], case |-> c,
                                                 verdict |-> IF ~r.success THEN "failed"
                                                             ELSE IF is_uncaught THEN "uncaught"
                                                             ELSE "passed",
                                                 message |-> r.message])
                /\ idx' = idx + 1
                /\ UNCHANGED <<pc, exit_code, log>>
    /\ UNCHANGED <<runnerFixed, queue, tested_list, cwd, original_dir, procs, cur, summary>>

\* The loop has taken every component. run_feature_tests.py --coverage
\* goes on to the coverage reports when nothing failed and something was
\* tested.
RunnerLoopDone ==
    /\ pc = "run.loop"
    /\ idx = Len(queue)
    /\ IF args.coverage /\ failed_plugins = 0 /\ tested_list # <<>>
       THEN /\ pc' = "run.coverage_report"
            /\ cur' = [name |-> "", done |-> 0, coverage_success |-> TRUE]
       ELSE /\ pc' = "run.summary"
            /\ UNCHANGED cur
    /\ UNCHANGED <<runnerFixed, queue, idx, counters, cwd, original_dir, procs, verdicts, summary>>
    /\ UNCHANGED <<exit_code, log>>

\* What 'cargo llvm-cov report' may do: end with 0, end with another code,
\* or not start (subprocess.run raises OSError).
ReportOutcomes == {"ok", "failed", "raised"}

\* generate_coverage_report_for_plugin(): the working directory when it
\* returns. os.chdir(plugin_dir) raises when the relative path does not
\* exist under the working directory; os.chdir(original_dir) follows
\* subprocess.run and is skipped when that raises.
cwd_after_report(dir, plugin, outcome) ==
    IF dir # ROOT THEN dir
    ELSE IF outcome = "raised" THEN plugin
    ELSE dir

\* generate_coverage_report_for_plugin(): the value returned.
report_result(dir, outcome) == dir = ROOT /\ outcome = "ok"

\* One call of generate_coverage_report_for_plugin in the loop over
\* successfully_tested_plugins.
CoverageReport(outcome) ==
    /\ pc = "run.coverage_report"
    /\ cur.done < Len(tested_list)
    /\ cwd' = cwd_after_report(cwd, tested_list[cur.done + 1], outcome)
    /\ cur' = [cur EXCEPT !.done = cur.done + 1,
                          !.coverage_success = cur.coverage_success /\ report_result(cwd, outcome)]
    /\ UNCHANGED <<runnerFixed, queue, idx, counters, original_dir, procs, verdicts, summary>>
    /\ UNCHANGED <<pc, exit_code, log>>

\* if not coverage_success: failed_plugins += 1
CoverageDone ==
    /\ pc = "run.coverage_report"
    /\ cur.done = Len(tested_list)
    /\ failed_plugins' = IF cur.coverage_success THEN failed_plugins ELSE failed_plugins + 1
    /\ cur' = NoComponent
    /\ pc' = "run.summary"
    /\ UNCHANGED <<runnerFixed, queue, idx, total_plugins, tested_plugins, skipped_plugins, tested_list>>
    /\ UNCHANGED <<cwd, original_dir, procs, verdicts, summary, exit_code, log>>

\* The summary is printed and the process exits.
RunnerSummary ==
    /\ pc = "run.summary"
    /\ summary' = [printed |-> TRUE, total |-> total_plugins, tested |-> tested_plugins,
                   skipped |-> skipped_plugins, failed |-> failed_plugins]
    /\ Exit(ExitStatus(failed_plugins), <<log_info("Test Summary", <<>>)>>)
    /\ UNCHANGED <<runnerFixed, queue, idx, counters, cwd, original_dir, procs, cur, verdicts>>

RunPluginTest ==
    \/ \E b \in Behaviours : TestEnter(b)
    \/ \E found \in BOOLEAN : TestBuild(found)
    \/ \E found \in BOOLEAN : TestSpawn(found)
    \/ TestWait
    \/ TestFinally

NextRunner ==
    \/ \E order \in Orders(available_plugins) : RunnerParseArgs(order)
    \/ \E ok \in BOOLEAN : RunnerCoverageSetup(ok)
    \/ \E main_rs \in MainRsFiles : RunnerHasMockSupport(main_rs)
    \/ RunPluginTest
    \/ \E c \in ValidationCases, found \in BOOLEAN : ValidationTest(c, found)
    \/ RunnerLoopDone
    \/ \E outcome \in ReportOutcomes : CoverageReport(outcome)
    \/ CoverageDone
    \/ RunnerSummary

\* The three test runners on the components they find.
SpecRunner == InitRunner /\ [][NextRunner]_vars


----------------------------------------------------------------------------
(* Properties of the test runners (SpecRunner) *)

MockRunner == script \in {"runtime", "feature"}

\* The positions of main() outside run_plugin_test and
\* generate_coverage_report_for_plugin.
OutsideTest == pc \in {"run.loop", "run.coverage_report", "run.summary", "exited"}

\* The binary of a tested component ran for longer than the timeout.
RunExceedsTimeout(v) == v.mock /\ v.b.build_ok /\ v.b.run_secs > TimeoutSeconds

\* C15: in both runners a component with mock support whose run exceeds the
\* timeout is classified Failed with the timeout message and counted in the
\* failed count; it is never Passed or Skipped.
C15_TimeoutIsFailure ==
    MockRunner =>
        /\ \A i \in DOMAIN verdicts :
              RunExceedsTimeout(verdicts[i]) =>
                  /\ verdicts[i].verdict = "failed"
                  /\ verdicts[i].message = "FAILED (timed out)"
        /\ failed_plugins >= Cardinality({i \in DOMAIN verdicts : RunExceedsTimeout(verdicts[i])})

C15_Witness ==
    /\ MockRunner
    /\ summary.printed
    /\ summary.failed = 1
    /\ \E i \in DOMAIN verdicts : RunExceedsTimeout(verdicts[i])

\* A component that compiles for longer than the timeout and whose binary
\* then exits with 0 within the timeout.
SlowBuildQuickRun(v) ==
    /\ v.mock
    /\ v.b.build_ok
    /\ v.b.build_secs > TimeoutSeconds
    /\ v.b.run_secs <= TimeoutSeconds
    /\ v.b.code = 0

\* C16: in both runners the timeout bounds only the run of the built binary:
\* a component whose compilation takes longer than the timeout and whose
\* binary then exits with 0 within the timeout is classified Passed.
C16_TimeoutBoundsRunOnly ==
    MockRunner =>
        \A i \in DOMAIN verdicts :
            SlowBuildQuickRun(verdicts[i]) => verdicts[i].verdict = "passed"

\* C17: once run_plugin_test has returned, no process started for the
\* component is still running, the binary started by 'cargo run' included.
C17_NoProcessLeftRunning ==
    OutsideTest => procs = {}

\* C18: run_plugin_test (both runners) and
\* generate_coverage_report_for_plugin leave the working directory as they
\* found it, on every path out of them.
C18_WorkingDirectoryRestored ==
    (MockRunner /\ OutsideTest) => cwd = ROOT

\* C19: once a runner has processed its components and printed the summary,
\* its exit status is 0 exactly when the failed count of the summary is 0,
\* and 1 otherwise; skipped and uncaught components do not make it non-zero.
C19_ExitStatusIffNoFailure ==
    summary.printed =>
        /\ pc = "exited"
        /\ exit_code \in {0, 1}
        /\ exit_code = 0 <=> summary.failed = 0

C19_Witness ==
    /\ summary.printed
    /\ summary.failed = 0
    /\ summary.skipped > 0
    /\ summary.tested > 0
    /\ exit_code = 0

\* C20: every script ends with status 0 on full success and 1 on a failure
\* or an invalid argument (a name that is no component, an option it does
\* not know); it ends with no other status.
C20_ExitStatusZeroOrOne ==
    pc = "exited" =>
        /\ exit_code \in {0, 1}
        /\ (args.bogus \/ (~args.help /\ unknown_plugins # {})) => exit_code = 1

\* ---------------------------------------------------------------------
\* The validation-failure runner's verdicts.

ValidationRunner == script = "validation"

\* The component's build was run and an expected error text is recorded.
HasExpectedError(v) ==
    RunsCargoCheck(v.case) /\ get_expected_error(v.case.file) # None

\* C21 as stated: a component with a recorded expected error text E passes
\* exactly when the error output of its build contains E.
C21_PassesIffOutputContains ==
    ValidationRunner =>
        \A i \in 1..Len(verdicts) :
            HasExpectedError(verdicts[i]) =>
                (verdicts[i].verdict = "passed"
                    <=> Contains(verdicts[i].case.stderr,
                                 get_expected_error(verdicts[i].case.file)))

\* C21: a component with a recorded expected error text E passes exactly
\* when its build fails and the error output of the build contains E; the
\* output need not equal E.
C21_PassesIffFailsWithExpected ==
    ValidationRunner =>
        \A i \in 1..Len(verdicts) :
            HasExpectedError(verdicts[i]) =>
                (verdicts[i].verdict = "passed"
                    <=> /\ ~verdicts[i].case.check_ok
                        /\ Contains(verdicts[i].case.stderr,
                                    get_expected_error(verdicts[i].case.file)))

C21_Witness ==
    /\ ValidationRunner
    /\ \E i \in 1..Len(verdicts) :
          /\ HasExpectedError(verdicts[i])
          /\ verdicts[i].verdict = "passed"
          /\ verdicts[i].case.stderr # get_expected_error(verdicts[i].case.file)

\* The component's build was run and no expected error text is recorded.
NoExpectedError(v) ==
    RunsCargoCheck(v.case) /\ get_expected_error(v.case.file) = None

CountVerdicts(kind) ==
    Cardinality({i \in 1..Len(verdicts) : verdicts[i].verdict = kind})

\* C22: a component without a recorded expected error passes exactly when
\* its build succeeds and is then counted as uncaught, never as passed; when
\* its build fails it is reported failed, counted as failed, and the run
\* ends with exit code 1.
C22_GapIsUncaughtOrFailed ==
    ValidationRunner =>
        /\ \A i \in 1..Len(verdicts) :
              NoExpectedError(verdicts[i]) =>
                  /\ verdicts[i].verdict = "uncaught" <=> verdicts[i].case.check_ok
                  /\ verdicts[i].verdict = "failed" <=> ~verdicts[i].case.check_ok
        /\ tested_plugins = CountVerdicts("passed")
        /\ skipped_plugins = CountVerdicts("uncaught")
        /\ failed_plugins = CountVerdicts("failed")
        /\ (summary.printed /\ pc = "exited"
              /\ \E i \in 1..Len(verdicts) :
                    NoExpectedError(verdicts[i]) /\ ~verdicts[i].case.check_ok)
           => exit_code = 1

C22_Witness ==
    /\ ValidationRunner
    /\ summary.printed
    /\ pc = "exited"
    /\ \E i, j \in 1..Len(verdicts) :
          /\ NoExpectedError(verdicts[i]) /\ verdicts[i].verdict = "uncaught"
          /\ NoExpectedError(verdicts[j]) /\ verdicts[j].verdict = "failed"
    /\ summary.skipped = 1
    /\ summary.failed = 1
    /\ exit_code = 1

\* src/main.rs is missing, cannot be read, or does not hold the marker.
LacksMockMarker(main_rs) ==
    \/ ~main_rs.exists
    \/ ~main_rs.readable
    \/ ~Contains(main_rs.content, MOCK_MARKER)

InsideTest == pc \in {"run.chdir", "run.build", "run.spawn", "run.wait", "run.finally"}

\* C24: within one invocation the entries of the selection are processed
\* once each and in the selected order: the i-th verdict is that of the i-th
\* entry, the component under test is the first entry without a verdict, so
\* that a failed or timed-out component is not run again, and the summary
\* is reached with a verdict for every entry whatever failed before; only
\* an exception that main() does not catch ends the loop early.
C24_EachSelectedOnceInOrder ==
    /\ Len(verdicts) <= Len(queue)
    /\ Len(verdicts) = idx
    /\ \A i \in 1..Len(verdicts) : verdicts[i].name = queue[i]
    /\ InsideTest => cur.name = queue[Len(verdicts) + 1]
    /\ summary.printed => Len(verdicts) = Len(queue)
    /\ (pc = "exited" /\ verdicts # <<>> /\ Len(verdicts) < Len(queue))
           => log[Len(log)] = Traceback

C24_Witness ==
    /\ summary.printed
    /\ Len(queue) = 2
    /\ queue[1] # queue[2]
    /\ verdicts[1].verdict = "failed"
    /\ verdicts[2].verdict \in {"passed", "uncaught"}
    /\ summary.total = 2

\* C28: in the summary of each runner the total equals the sum of the
\* other three counters (tested, skipped and failed; passed, uncaught and
\* failed in the validation-failure runner).
C28_TotalIsSumOfCounters ==
    summary.printed =>
        summary.total = summary.tested + summary.skipped + summary.failed

\* C27: whenever a process reports 'Package up to date' and ends with code
\* 0, the archive exists and is a complete archive, as a successful earlier
\* process wrote it; it is never absent and never the partial file that a
\* failed write left.
C27_UpToDateMeansCompleteArchive ==
    (pc = "exited" /\ exit_code = 0 /\ ReportedUpToDate)
        => archive.state = "complete"

\* ---------------------------------------------------------------------
\* The packaged descriptor against the archive's layout.

\* The packaged descriptor and the packaged binary.
PackagedDescriptors == {e \in archive.entries : e.data.kind = "tp"}
PackagedBinaries == {e \in archive.entries : e.data.kind = "exe"}

\* The path a start command names under the plugin folder: the command up
\* to its first space, without the %TP_PLUGIN_FOLDER% prefix.
PathUnderPluginFolder(cmd) ==
    SubSeq(SplitFirstSpace(cmd), Len(TP_PLUGIN_FOLDER) + 1, Len(SplitFirstSpace(cmd)))

----------------------------------------------------------------------------
(* scripts/plugin_common.py: get_plugin_config *)

\* Python truth of an optional string: None and '' are false.
Truthy(v) == v # None /\ v # <<>>

\* a or b
Or(a, b) == IF Truthy(a) THEN a ELSE b

\* dict.get(key) on a table whose missing keys hold the marker Absent.
dict_get(table, key) == IF table[key] = Absent THEN None ELSE table[key]

P_NAME == <<"p","k","g">>

\* package.metadata of the package 'cargo metadata' lists: null, a table
\* without the key touchportal, or a table with it.
NoTouchPortal(kind) == [kind |-> kind, plugin_name |-> Absent, plugin_binary |-> Absent]
Metadatas ==
    { NoTouchPortal("null"), NoTouchPortal("other") }
    \cup { [kind |-> "touchportal", plugin_name |-> n, plugin_binary |-> b] :
              n \in {Absent, <<>>, N_FOO, N_MY_P}, b \in {Absent, <<>>, B_BIN} }

\* The package that 'cargo metadata' lists, and whether its id is the one
\* that 'cargo pkgid' prints.
Packages ==
    { [id_matches |-> m, name |-> P_NAME, default_run |-> d, metadata |-> md] :
         m \in BOOLEAN, d \in {None, B_OTH}, md \in Metadatas }

\* metadata_dict = current_package.get("metadata") or {};
\* plugin_metadata = metadata_dict.get("touchportal", {})
plugin_metadata(package) ==
    IF package.metadata.kind = "touchportal" THEN package.metadata
    ELSE NoTouchPortal("touchportal")

\* Fault: the package name is preferred to the override and default_run.
CrateBinary_NameFirst(package) ==
    Or(package.name,
       Or(dict_get(plugin_metadata(package), "plugin_binary"), package.default_run))

\* plugin_metadata.get("plugin_binary") or current_package.get("default_run")
\* or current_package["name"]
CrateBinary(package) ==
    Or(dict_get(plugin_metadata(package), "plugin_binary"),
       Or(package.default_run, package.name))

\* tpp_file = f"{plugin_name}.tpp"
TppFile(name) == name \o DOT_TPP

\* package.py started in a component root; get_plugin_config is entered.
InitConfig ==
    /\ clock = 0
    /\ mtime = [f \in Files |-> 0]
    /\ skewed = FALSE
    /\ archive = NoArchive
    /\ plugin_name = <<>>
    /\ pc = "config.cargo_metadata"
    /\ runs = 1
    /\ plugin_exe = <<>>
    /\ exe_bytes = ""
    /\ entry_tp = BadJson
    /\ archive0 = NoArchive
    /\ prev_wrote = FALSE
    /\ stale = FALSE
    /\ dest = NoDir
    /\ scratch = {}
    /\ pkg_exit = NoExit
    /\ file_count = 0
    /\ dest0 = NoDir
    /\ RunnerIdle
    /\ InitRun
    /\ current_package \in Packages
    /\ crate_binary = <<>>
    /\ tpp_file = <<>>
    /\ build_stdout = <<>>
    /\ line_no = 0
    /\ out_dir = None
    /\ coverage_files = <<>>

configFixed == <<pkgVars, archive, installVars, runnerVars, current_package,
                 build_stdout, line_no, out_dir, coverage_files>>

\* subprocess.run(["cargo", "metadata", ...], check=True) and json.loads:
\* CalledProcessError and JSONDecodeError end the process with 1.
ConfigCargoMetadata(outcome) ==
    /\ pc = "config.cargo_metadata"
    /\ IF outcome = "failed"
       THEN Exit(1, <<log_error("Failed to get cargo metadata", <<>>)>>)
       ELSE IF outcome = "bad_json"
       THEN Exit(1, <<log_error("Failed to parse cargo metadata JSON", <<>>)>>)
       ELSE /\ pc' = "config.cargo_pkgid"
            /\ UNCHANGED <<exit_code, log>>
    /\ UNCHANGED <<configFixed, plugin_name, crate_binary, tpp_file, calls>>

\* subprocess.run(["cargo", "pkgid"], check=True)
ConfigCargoPkgid(ok) ==
    /\ pc = "config.cargo_pkgid"
    /\ IF ok
       THEN /\ pc' = "config.current_package"
            /\ UNCHANGED <<exit_code, log>>
       ELSE Exit(1, <<log_error("Failed to get cargo metadata", <<>>)>>)
    /\ UNCHANGED <<configFixed, plugin_name, crate_binary, tpp_file, calls>>

\* The package is looked up by its id, the plugin name is required, and
\* the three values are returned to main().
ConfigReturn ==
    /\ pc = "config.current_package"
    /\ IF ~current_package.id_matches
       THEN /\ Exit(1, <<log_error("Could not find package with ID", <<>>)>>)
            /\ UNCHANGED <<plugin_name, crate_binary, tpp_file, calls>>
       ELSE IF ~Truthy(dict_get(plugin_metadata(current_package), "plugin_name"))
       THEN /\ Exit(1, <<log_error("package.metadata.touchportal.plugin_name not found in Cargo.toml",
                                   <<>>)>>)
            /\ UNCHANGED <<plugin_name, crate_binary, tpp_file, calls>>
       ELSE /\ plugin_name' = dict_get(plugin_metadata(current_package), "plugin_name")
            /\ crate_binary' = CrateBinary(current_package)
            /\ tpp_file' = TppFile(plugin_name')
            /\ calls' = calls \cup {"get_plugin_config"}
            /\ pc' = "config.returned"
            /\ UNCHANGED <<exit_code, log>>
    /\ UNCHANGED configFixed

NextConfig ==
    \/ \E outcome \in {"ok", "failed", "bad_json"} : ConfigCargoMetadata(outcome)
    \/ \E ok \in BOOLEAN : ConfigCargoPkgid(ok)
    \/ ConfigReturn

SpecConfig == InitConfig /\ [][NextConfig]_vars

\* get_plugin_config went through the package's metadata.
ConfigOver == pc \in {"config.returned", "exited"} /\ current_package.id_matches
                 /\ (pc = "exited" => log[Len(log)].msg \notin
                        {"Failed to get cargo metadata", "Failed to parse cargo metadata JSON"})

\* The plugin name is missing from the metadata or empty.
PluginNameMissing ==
    \/ current_package.metadata.kind # "touchportal"
    \/ current_package.metadata.plugin_name \in {Absent, <<>>}

\* The first non-empty of the override, default_run and the package name.
FirstNonEmptyBinary ==
    LET override == IF current_package.metadata.kind = "touchportal"
                    THEN current_package.metadata.plugin_binary ELSE Absent
    IN  IF override \notin {Absent, <<>>} THEN override
        ELSE IF current_package.default_run \notin {None, <<>>} THEN current_package.default_run
        ELSE current_package.name

\* C25: get_plugin_config returns as binary name the first non-empty of the
\* override package.metadata.touchportal.plugin_binary, the package's
\* default_run and the package's name, and '<plugin_name>.tpp' as output
\* file name; with plugin_name missing or empty the process exits with 1
\* before anything is built or written.
C25_ConfigFromMetadata ==
    ConfigOver =>
        IF PluginNameMissing
        THEN /\ pc = "exited"
             /\ exit_code = 1
             /\ calls = {}
             /\ archive = NoArchive
             /\ clock = 0
        ELSE /\ pc = "config.returned"
             /\ plugin_name = current_package.metadata.plugin_name
             /\ crate_binary = FirstNonEmptyBinary
             /\ tpp_file = plugin_name \o <<".","t","p","p">>

\* C25 witness: the override is empty, so default_run names the binary.
C25_Witness ==
    /\ pc = "config.returned"
    /\ current_package.metadata.plugin_binary = <<>>
    /\ current_package.default_run = B_OTH
    /\ crate_binary = B_OTH
    /\ tpp_file = N_MY_P \o DOT_TPP

----------------------------------------------------------------------------
(* scripts/package.py: build_plugin reads the messages of cargo build *)

\* Number of lines of the build's standard output.
MaxLines == 3

PKG_ID == <<"p","k","g","#","1">>
DEP_ID == <<"d","e","p","#","1">>
EXE_PATH == <<"t","/">> \o B_BIN
OUT_DIR == <<"b","/","o","u","t">>

\* A line of result.stdout: empty, not JSON, or a JSON message with the
\* keys build_plugin reads (None for a key the message lacks or holds null).
Message(reason, target, package_id, executable, dir) ==
    [empty |-> FALSE, json |-> TRUE, reason |-> reason, target |-> target,
     package_id |-> package_id, executable |-> executable, out_dir |-> dir]
EmptyLine ==
    [empty |-> TRUE, json |-> FALSE, reason |-> "", target |-> None,
     package_id |-> None, executable |-> None, out_dir |-> None]
TextLine ==
    [empty |-> FALSE, json |-> FALSE, reason |-> "", target |-> None,
     package_id |-> None, executable |-> None, out_dir |-> None]

\* The lines considered: the binary's artifact; the artifact of a library
\* target that carries the binary's name (no executable); the artifact of
\* another binary; the build script's message of the package and that of a
\* dependency.
StdoutLines ==
    { EmptyLine, TextLine,
      Message("compiler-artifact", B_BIN, PKG_ID, EXE_PATH, None),
      Message("compiler-artifact", B_BIN, PKG_ID, None, None),
      Message("compiler-artifact", B_OTH, PKG_ID, <<"t","/">> \o B_OTH, None),
      Message("build-script-executed", None, PKG_ID, None, OUT_DIR),
      Message("build-script-executed", None, DEP_ID, None, <<"d","/","o","u","t">>) }

\* Fault: the artifact of any target is taken for the binary's.
TakeLine_AnyTarget(found, line, binary, package_id) ==
    IF line.empty \/ ~line.json THEN found
    ELSE [plugin_exe |-> IF line.reason = "compiler-artifact"
                         THEN line.executable ELSE found.plugin_exe,
          out_dir |-> IF line.reason = "build-script-executed" /\ line.package_id = package_id
                      THEN line.out_dir ELSE found.out_dir]

\* The body of the loop over the lines: what plugin_exe and out_dir are
\* after the line.
TakeLine(found, line, binary, package_id) ==
    IF line.empty \/ ~line.json THEN found
    ELSE [plugin_exe |-> IF line.reason = "compiler-artifact" /\ line.target = binary
                         THEN line.executable ELSE found.plugin_exe,
          out_dir |-> IF line.reason = "build-script-executed" /\ line.package_id = package_id
                      THEN line.out_dir ELSE found.out_dir]

\* build_plugin(crate_binary) is entered.
InitBuild ==
    /\ clock = 0
    /\ mtime = [f \in Files |-> 0]
    /\ skewed = FALSE
    /\ archive = NoArchive
    /\ plugin_name = N_FOO
    /\ pc = "build.cargo_build"
    /\ runs = 1
    /\ plugin_exe = None
    /\ exe_bytes = ""
    /\ entry_tp = BadJson
    /\ archive0 = NoArchive
    /\ prev_wrote = FALSE
    /\ stale = FALSE
    /\ dest = NoDir
    /\ scratch = {}
    /\ pkg_exit = NoExit
    /\ file_count = 0
    /\ dest0 = NoDir
    /\ RunnerIdle
    /\ InitRun
    /\ current_package = [id_matches |-> FALSE]
    /\ crate_binary = B_BIN
    /\ tpp_file = <<>>
    /\ build_stdout \in SeqsUpTo(StdoutLines, MaxLines)
    /\ line_no = 0
    /\ out_dir = None
    /\ coverage_files = <<>>

buildFixed == <<clock, mtime, skewed, runs, source_time, package_time, exe_bytes, entry_tp,
                validations, vresults, archive0, prev_wrote, stale,
                archive, plugin_name, installVars, runnerVars, current_package,
                crate_binary, tpp_file, build_stdout, coverage_files>>

\* subprocess.run(["cargo", "build", ...], check=True): a build that does
\* not exit with 0 raises CalledProcessError.
BuildCargoBuild(ok) ==
    /\ pc = "build.cargo_build"
    /\ calls' = calls \cup {"build_plugin"}
    /\ IF ok
       THEN /\ pc' = "build.cargo_pkgid"
            /\ UNCHANGED <<exit_code, log>>
       ELSE Exit(1, <<log_error("Failed to build plugin", <<>>)>>)
    /\ UNCHANGED <<buildFixed, plugin_exe, out_dir, line_no>>

\* current_package_id = subprocess.run(["cargo", "pkgid"], check=True)
BuildCargoPkgid(ok) ==
    /\ pc = "build.cargo_pkgid"
    /\ IF ok
       THEN /\ pc' = "build.lines"
            /\ UNCHANGED <<exit_code, log>>
       ELSE Exit(1, <<log_error("Failed to build plugin", <<>>)>>)
    /\ UNCHANGED <<buildFixed, plugin_exe, out_dir, line_no, calls>>

\* for line in result.stdout.strip().split('\n')
BuildLine ==
    /\ pc = "build.lines"
    /\ line_no < Len(build_stdout)
    /\ LET found == TakeLine([plugin_exe |-> plugin_exe, out_dir |-> out_dir],
                             build_stdout[line_no + 1], crate_binary, PKG_ID)
       IN  /\ plugin_exe' = found.plugin_exe
           /\ out_dir' = found.out_dir
    /\ line_no' = line_no + 1
    /\ UNCHANGED <<buildFixed, pc, exit_code, log, calls>>

\* After the loop: both values are required, and the descriptor has to
\* exist next to the build script's output directory.
BuildReturn(entry_exists) ==
    /\ pc = "build.lines"
    /\ line_no = Len(build_stdout)
    /\ IF ~Truthy(plugin_exe)
       THEN Exit(1, <<log_error("Failed to find executable path for", crate_binary)>>)
       ELSE IF ~Truthy(out_dir)
       THEN Exit(1, <<log_error("Failed to find build script output directory for package", PKG_ID)>>)
       ELSE IF ~entry_exists
       THEN Exit(1, <<log_error("entry.tp not found at", <<>>)>>)
       ELSE /\ pc' = "build.returned"
            /\ UNCHANGED <<exit_code, log>>
    /\ UNCHANGED <<buildFixed, plugin_exe, out_dir, line_no, calls>>

NextBuild ==
    \/ \E ok \in BOOLEAN : BuildCargoBuild(ok)
    \/ \E ok \in BOOLEAN : BuildCargoPkgid(ok)
    \/ BuildLine
    \/ \E entry_exists \in BOOLEAN : BuildReturn(entry_exists)

SpecBuild == InitBuild /\ [][NextBuild]_vars

\* How build_plugin ended.
ExecutableError ==
    pc = "exited" /\ HasErrorLine("Failed to find executable path for", crate_binary)
OutDirError ==
    pc = "exited"
    /\ HasErrorLine("Failed to find build script output directory for package", PKG_ID)
BuildOver == pc = "build.returned" \/ (pc = "exited" /\ line_no = Len(build_stdout)
                                         /\ ~HasErrorLine("Failed to build plugin", <<>>))

\* The positions of the messages that count: artifacts of the requested
\* binary's name, and build-script messages of the current package.
ArtifactLines ==
    {i \in 1..Len(build_stdout) :
        /\ build_stdout[i].json
        /\ build_stdout[i].reason = "compiler-artifact"
        /\ build_stdout[i].target = crate_binary}
ScriptLines ==
    {i \in 1..Len(build_stdout) :
        /\ build_stdout[i].json
        /\ build_stdout[i].reason = "build-script-executed"
        /\ build_stdout[i].package_id = PKG_ID}
Last(S) == CHOOSE i \in S : \A j \in S : j <= i

\* The values the counting messages alone determine: those of the last one.
ExecutableOfMessages ==
    IF ArtifactLines = {} THEN None ELSE build_stdout[Last(ArtifactLines)].executable
OutDirOfMessages ==
    IF ScriptLines = {} THEN None ELSE build_stdout[Last(ScriptLines)].out_dir

----------------------------------------------------------------------------
(* validation-failures-workspace/validation_coverage.py *)

\* What a workspace member gives: whether its Cargo.toml names a package,
\* and what 'cargo llvm-cov run' does for it: it leaves a coverage file,
\* leaves none, cannot be started, or leaves a file that cannot be moved.
CoverageCases ==
    [package_name : BOOLEAN, outcome : {"file", "no_file", "raised", "move_failed"}]

\* One iteration of the loop of run_coverage_collection: the member is
\* skipped, its coverage file is collected, or an exception (the
\* RuntimeError raised for a missing coverage file included) is caught by
\* 'except Exception' inside the loop, which prints it and goes on.
CollectionResult(c) ==
    IF ~c.package_name THEN "skipped"
    ELSE IF c.outcome = "file" THEN "collected"
    ELSE "error"

CoverageArgs ==
    { NoArgs, [NoArgs EXCEPT !.coverage = TRUE], [NoArgs EXCEPT !.help = TRUE],
      [NoArgs EXCEPT !.bogus = TRUE] }

InitCoverage ==
    /\ clock = 0
    /\ mtime = [f \in Files |-> 0]
    /\ skewed = FALSE
    /\ archive = NoArchive
    /\ plugin_name = N_FOO
    /\ pc = "cov.parse_args"
    /\ runs = 0
    /\ plugin_exe = <<>>
    /\ exe_bytes = ""
    /\ entry_tp = BadJson
    /\ archive0 = NoArchive
    /\ prev_wrote = FALSE
    /\ stale = FALSE
    /\ dest = NoDir
    /\ scratch = {}
    /\ pkg_exit = NoExit
    /\ file_count = 0
    /\ dest0 = NoDir
    /\ HelperIdle
    /\ InitRun
    /\ script = "coverage"
    /\ args \in CoverageArgs
    /\ available_plugins \in SUBSET Names
    /\ queue = <<>>
    /\ idx = 0
    /\ total_plugins = 0
    /\ tested_plugins = 0
    /\ skipped_plugins = 0
    /\ failed_plugins = 0
    /\ tested_list = <<>>
    /\ cwd \in {ROOT, "elsewhere"}
    /\ original_dir = ROOT
    /\ procs = {}
    /\ cur = NoComponent
    /\ verdicts = <<>>
    /\ summary = NoSummary

coverageFixed == <<pkgVars, archive, plugin_name, calls, installVars, script, args,
                   available_plugins, counters, original_dir, procs, cur, summary,
                   current_package, crate_binary, tpp_file, build_stdout, line_no, out_dir>>

\* main(): parse_args(), then os.chdir(script_dir).
CoverageParseArgs ==
    /\ pc = "cov.parse_args"
    /\ IF args.bogus
       THEN /\ Exit(2, <<log_error("unrecognized arguments", <<>>)>>)
            /\ UNCHANGED cwd
       ELSE IF args.help
       THEN /\ Exit(0, <<log_info("usage", <<>>)>>)
            /\ UNCHANGED cwd
       ELSE /\ cwd' = ROOT
            /\ pc' = "cov.create_temporary_workspace"
            /\ UNCHANGED <<exit_code, log>>
    /\ UNCHANGED <<coverageFixed, queue, idx, verdicts, coverage_files>>

\* create_temporary_workspace(temp_dir): an exception of a copy is caught by
\* main(), which exits with 1; get_workspace_members() exits with 1 itself
\* when the workspace lists no members.
CoverageCreateWorkspace(ok) ==
    /\ pc = "cov.create_temporary_workspace"
    /\ IF ~ok
       THEN Exit(1, <<log_error("Coverage collection failed", <<>>)>>)
       ELSE IF available_plugins = {}
       THEN Exit(1, <<log_error("No workspace members found in Cargo.toml", <<>>)>>)
       ELSE /\ pc' = "cov.get_workspace_members"
            /\ UNCHANGED <<exit_code, log>>
    /\ UNCHANGED <<coverageFixed, cwd, queue, idx, verdicts, coverage_files>>

\* run_coverage_collection(): members = get_workspace_members()
CoverageMembers(order) ==
    /\ pc = "cov.get_workspace_members"
    /\ queue' = order
    /\ pc' = "cov.loop"
    /\ UNCHANGED <<coverageFixed, cwd, idx, verdicts, coverage_files, exit_code, log>>

\* for member in members
CoverageCollect(c) ==
    /\ pc = "cov.loop"
    /\ idx < Len(queue)
    /\ verdicts' = Append(verdicts, [name |-> queue[idx + 1], case |-> c,
                                     verdict |-> CollectionResult(c)])
    /\ coverage_files' = IF CollectionResult(c) = "collected"
                         THEN Append(coverage_files, queue[idx + 1])
                         ELSE coverage_files
    /\ idx' = idx + 1
    /\ UNCHANGED <<pc, exit_code, log>>
    /\ UNCHANGED <<coverageFixed, cwd, queue>>

\* After the loop: no coverage file at all raises RuntimeError, which
\* main() turns into exit code 1; otherwise main() returns.
CoverageFinish ==
    /\ pc = "cov.loop"
    /\ idx = Len(queue)
    /\ IF Len(coverage_files) = 0
       THEN Exit(1, <<log_error("Coverage collection failed", <<>>)>>)
       ELSE Exit(0, <<log_info("Validation coverage collection complete", <<>>)>>)
    /\ UNCHANGED <<coverageFixed, cwd, queue, idx, verdicts, coverage_files>>

NextCoverage ==
    \/ CoverageParseArgs
    \/ \E ok \in BOOLEAN : CoverageCreateWorkspace(ok)
    \/ \E order \in Orders(available_plugins) : CoverageMembers(order)
    \/ \E c \in CoverageCases : CoverageCollect(c)
    \/ CoverageFinish

SpecCoverage == InitCoverage /\ [][NextCoverage]_vars

\* A member with a package name for which the coverage run left no file.
NoCoverageFile(v) == v.case.package_name /\ v.case.outcome = "no_file"

\* C30: a workspace member with a readable package name for which the
\* coverage run leaves no coverage file is a hard error: the script exits
\* with 1 instead of going on to report success.
C30_MissingCoverageFileIsHardError ==
    (pc = "exited" /\ \E i \in 1..Len(verdicts) : NoCoverageFile(verdicts[i]))
        => exit_code = 1

====
